---- MODULE Spec2Model ----
(***************************************************************************)
(* Model of the acquisition engine of qobuz-cli: the circuit breaker that  *)
(* wraps API calls, the SQLite track archive (the ledger) and the download *)
(* orchestrator (DownloadManager + TrackProcessor).                        *)
(***************************************************************************)
EXTENDS Integers, Sequences, FiniteSets, TLC

\* ------------------------------------------------------------------ bounds
MaxThreshold == 2      \* largest failure_threshold / success_threshold tried
MaxTimeout == 2        \* largest recovery_timeout tried (clock ticks)
MaxTime == 3           \* the monotonic clock stops advancing here
NumCallers == 2        \* concurrent api_call coroutines
MaxWorkers == 2        \* largest max_workers tried
MaxTrackId == 2        \* track ids that get inserted into the archive
MaxBatch == 2          \* longest list handed to add_tracks
MaxLocks == 2          \* largest capacity of the cover lock registry tried
NumGroups == 3         \* albums asking for a cover lock
NumLockCallers == 2    \* coroutines asking for cover locks
MaxLockObjects == 4    \* asyncio.Lock objects created by the registry
MaxAttempts == 3       \* largest max_attempts tried (the default)
MaxBaseDelay == 3      \* largest base_delay tried, in half seconds (default 1.5 s)
NumRlCallers == 3      \* concurrent api_call coroutines using the rate limiter
MaxAcquires == 3       \* acquire() calls made in a run
MaxTicks == 1          \* times the clock advances or a sleep returns late
ShortTick == 60        \* a short advance of the clock, in ms
LateWake == 7          \* how late asyncio.sleep may return, in ms
MaxAgeDays == 1        \* largest max_age_days tried
MaxCacheTime == 2      \* time.time() stops advancing here, in days
EnvelopeSize == 40     \* bytes of a cache payload besides the value
PastRecoveries == 82   \* recovery steps a long-running limiter has behind it
NumTransfers == 2      \* concurrent download_file calls
MaxChunkTime == 3      \* the event loop clock stops advancing here, in seconds
MaxRetries == 1        \* attempts that break with a transient error

VARIABLES
    \* ---- CircuitBreaker (utils/circuit_breaker.py)
    failure_threshold, recovery_timeout, success_threshold,
    cbState, cbFailureCount, cbSuccessCount, cbLastFailureTime,
    now,            \* time.monotonic()
    callPc,         \* position of every api_call coroutine
    sentReq,        \* per coroutine: its current call reached session.get()
    consecFailures, \* history: failed completions since the last success
    hoSuccesses,    \* history: successes since the state became half_open
    openedAt,       \* history: time of the failure that opened the circuit last
    \* ---- TrackArchive (storage/archive.py)
    downloaded_tracks, \* the table: track_id -> [artist, album, title, downloaded_at]
    archiveTime,    \* CURRENT_TIMESTAMP of the database
    addReturn,      \* what the last add_tracks returned ("none" before any)
    checkCall,      \* input and result of the check_if_tracks_exist in progress
    firstInserted,  \* history: track_id -> row of the first successful insert
    reInserted,     \* history: some id was inserted again with other fields
    \* ---- DownloadManager / TrackProcessor (core/)
    config,         \* DownloadConfig: the flags the orchestrator reads
    source_urls,    \* the unique URLs of the run
    ledger0,        \* history: track ids in the archive when the run starts
    urlPc,          \* position of every _process_url task
    plIndex,        \* position of the playlist loop over all_tracks
    processed_album_ids, processed_playlist_ids,
    item,           \* per work item: position, URL data, history flags
    semaphore,      \* free slots of asyncio.Semaphore(max_workers)
    assetLock,      \* holder of every album's cover lock
    coverFetches,   \* history: download_asset calls made for every album's cover
    stats,          \* DownloadStats: the five terminal counters
    cls,            \* history: the counter increments made for each item
    finalFiles,     \* content of every final path
    tempFiles,      \* the temporary paths that exist
    coverFiles,     \* cover.jpg of every output directory
    cacheFiles,     \* the cache entry files written by the run
    \* ---- TrackProcessor._get_asset_lock (core/track_processor.py)
    max_locks,      \* _max_locks: capacity of the registry
    asset_locks,    \* _asset_locks: the entries, oldest first
    lockCount,      \* asyncio.Lock objects created so far
    lkPc,           \* per caller: idle, waiting for or holding its lock
    lkLock,         \* per caller: the lock object it was handed
    lkGroup,        \* per caller: the album id it asked for
    \* ---- Downloader.download_file (media/downloader.py)
    max_attempts, base_delay,
    attempt,        \* the loop variable of download_file
    last_exception, \* the transient exception caught last ("None" before any)
    dlPc,           \* position of the download_file coroutine
    dlFile,         \* content of destination_path
    dlRaised,       \* the exception that left download_file ("None" if none)
    dlSlept,        \* history: the delays handed to asyncio.sleep, in order
    dlOutcomes,     \* history: how every attempt made so far ended
    \* ---- AdaptiveRateLimiter (api/rate_limiter.py); rates in calls per
    \* 1000 s, times in ms
    rlRate,         \* _rate
    rlMinInterval,  \* _min_interval
    last_call_time, last_429_time,
    rlNow,          \* time.monotonic() = loop.time()
    rlLock,         \* holder of _lock (NoCaller if free)
    rlQueue,        \* coroutines waiting for _lock, first come first
    rlPc,           \* position of every api_call coroutine
    rlWake,         \* per coroutine: when its asyncio.sleep is due
    rlAcquires,     \* acquire() calls made so far
    rlSignals,      \* history: on_429 calls made so far
    rlApplied,      \* history: on_429 calls that have changed the rate
    rlTicks,        \* clock advances made so far
    lastReturn,     \* history: when acquire() returned last (NeverReturned if never)
    \* ---- CacheManager (storage/cache.py); times in days
    max_age_seconds,
    cache_files,    \* the entry file of every key: mtime and payload
    caNow,          \* time.time()
    caResult,       \* the last get or set: its arguments and what it returned
    swPc,           \* position of the sweep thread
    swNow,          \* the time the running sweep read when it started
    swTodo,         \* entry files the running sweep has still to look at
    swFile,         \* the entry file the sweep found expired and is to unlink
    lastSet,        \* history: time and value of the last successful set of a key
    \* ---- Downloader: the body loop of download_file (media/downloader.py);
    \* times in seconds
    shared_chunk_size, \* Downloader._shared_chunk_size
    chNow,          \* asyncio.get_event_loop().time()
    chPc,           \* position of every download_file call
    chStats,        \* per call: stats and progress_manager were passed
    last_speed_check, \* per call: the local variable of the running attempt
    chRetries,      \* attempts broken by a transient error so far
    lastAdapt,      \* history: when the chunk size was recomputed last
    reportFailed,   \* history: per call, a reporting update raised
    chClass         \* history: how process_track counted the item of the call

cbVars == <<failure_threshold, recovery_timeout, success_threshold,
            cbState, cbFailureCount, cbSuccessCount, cbLastFailureTime,
            now, callPc, sentReq, consecFailures, hoSuccesses, openedAt>>

arVars == <<downloaded_tracks, archiveTime, addReturn, checkCall, firstInserted,
           reInserted>>

arAux == <<archiveTime, addReturn, checkCall, firstInserted, reInserted>>

orVars == <<config, source_urls, ledger0, urlPc, plIndex, processed_album_ids,
            processed_playlist_ids, item, semaphore, assetLock, coverFetches,
            stats, cls,
            finalFiles, tempFiles, coverFiles, cacheFiles>>

lkVars == <<max_locks, asset_locks, lockCount, lkPc, lkLock, lkGroup>>

dlVars == <<max_attempts, base_delay, attempt, last_exception, dlPc, dlFile,
            dlRaised, dlSlept, dlOutcomes>>

rlVars == <<rlRate, rlMinInterval, last_call_time, last_429_time, rlNow, rlLock,
            rlQueue, rlPc, rlWake, rlAcquires, rlSignals, rlApplied, rlTicks,
            lastReturn>>

caVars == <<max_age_seconds, cache_files, caNow, caResult, swPc, swNow, swTodo,
            swFile, lastSet>>

chVars == <<shared_chunk_size, chNow, chPc, chStats, last_speed_check,
            chRetries, lastAdapt, reportFailed, chClass>>

vars == <<cbVars, arVars, orVars, lkVars, dlVars, rlVars, caVars, chVars>>

Callers == 1..NumCallers
NoTime == -1    \* _last_failure_time is None

Min(a, b) == IF a < b THEN a ELSE b
SeqSet(s) == {s[k] : k \in 1..Len(s)}
EmptyMap == [x \in {} |-> FALSE]

\* --------------------------------------------------------- TrackArchive
CHECK_BATCH_SIZE == 999
ADD_BATCH_SIZE == 500
NULL == "NULL"            \* Python None / SQL NULL

\* str(meta["id"]): the decimal text of an integer id
Str(i) == <<"str", i>>

\* track metadata as handed to add_tracks by the orchestrator
TrackMetas ==
    [id : 1..MaxTrackId, performer : {"x", NULL}, album : {"al"},
     title : {"ti"}]

\* the tuple built for one meta (lines 143-152); "id" is always truthy here
ToRecord(meta) ==
    [track_id |-> Str(meta.id), artist |-> meta.performer,
     album |-> meta.album, title |-> meta.title]

RECURSIVE Records(_)
Records(metas) ==
    IF metas = <<>> THEN <<>>
    ELSE (IF Head(metas).id # 0 THEN <<ToRecord(Head(metas))>> ELSE <<>>)
         \o Records(Tail(metas))

\* the ids that have a row in the table
TableIds(table) == {r.track_id : r \in table}

Row(rec, t) ==
    [track_id |-> rec.track_id, artist |-> rec.artist, album |-> rec.album,
     title |-> rec.title, downloaded_at |-> t]

\* variant: INSERT OR REPLACE, the new row takes the place of the old one
InsertOrReplace(table, rec, t) ==
    {r \in table : r.track_id # rec.track_id} \cup {Row(rec, t)}

\* INSERT OR IGNORE of one row at timestamp t (track_id is the primary key)
InsertOrIgnore(table, rec, t) ==
    IF rec.track_id \in TableIds(table) THEN table
    ELSE table \cup {Row(rec, t)}

\* executemany over one chunk, row by row
RECURSIVE ExecuteMany(_, _, _)
ExecuteMany(table, chunk, t) ==
    IF chunk = <<>> THEN table
    ELSE ExecuteMany(InsertOrIgnore(table, Head(chunk), t), Tail(chunk), t)

\* for i in range(0, len(records), BATCH_SIZE)
RECURSIVE AddChunks(_, _, _, _)
AddChunks(table, records, i, t) ==
    IF i >= Len(records) THEN table
    ELSE AddChunks(
            ExecuteMany(table,
                        SubSeq(records, i + 1, Min(i + ADD_BATCH_SIZE, Len(records))),
                        t),
            records, i + ADD_BATCH_SIZE, t)

\* _add_batch_sync: <<new table, return value>>; a sqlite3.Error rolls the
\* transaction back and gives False
AddBatchSync(table, metas, storeOk, t) ==
    LET records == Records(metas) IN
    IF records = <<>> THEN <<table, TRUE>>
    ELSE IF storeOk THEN <<AddChunks(table, records, 0, t), TRUE>>
    ELSE <<table, FALSE>>

\* variant: the map of the chunk replaces results instead of updating it
CheckChunk_Replace(table, chunk, results) ==
    LET existing_ids == {x \in SeqSet(chunk) : x \in TableIds(table)}
    IN  [x \in SeqSet(chunk) |-> x \in existing_ids]

\* one chunk of _check_batch_sync merged into results (lines 121-131)
CheckChunk(table, chunk, results) ==
    LET existing_ids == {x \in SeqSet(chunk) : x \in TableIds(table)}
        chunk_results == [x \in SeqSet(chunk) |-> x \in existing_ids]
    IN  [x \in DOMAIN results \cup DOMAIN chunk_results |->
            IF x \in DOMAIN chunk_results THEN chunk_results[x] ELSE results[x]]

RECURSIVE CheckChunks(_, _, _, _)
CheckChunks(table, track_ids, i, results) ==
    IF i >= Len(track_ids) THEN results
    ELSE CheckChunks(table, track_ids, i + CHECK_BATCH_SIZE,
            CheckChunk(table,
                       SubSeq(track_ids, i + 1,
                              Min(i + CHECK_BATCH_SIZE, Len(track_ids))),
                       results))

\* _check_batch_sync: a sqlite3.Error gives False for every queried id
CheckBatchSync(table, track_ids, storeOk) ==
    IF track_ids = <<>> THEN EmptyMap
    ELSE IF storeOk THEN CheckChunks(table, track_ids, 0, EmptyMap)
    ELSE [x \in SeqSet(track_ids) |-> FALSE]

\* the id lists tried: lengths around the chunk size and its double, with all
\* ids distinct, two ids alternating, or the ids of the first chunk repeated
\* in the following chunks
CheckLens ==
    {0, 1, 2, CHECK_BATCH_SIZE, CHECK_BATCH_SIZE + 1, 2 * CHECK_BATCH_SIZE + 1}
CheckShapes == {"distinct", "alternate", "wrap"}
IdList(len, shape) ==
    [k \in 1..len |->
        Str(CASE shape = "distinct" -> k
              [] shape = "alternate" -> (k % 2) + 1
              [] OTHER -> ((k - 1) % CHECK_BATCH_SIZE) + 1)]

\* two timestamps tell a first insert from a later one
ArchiveTimes == {0, 1}

NoCall == [len |-> 0, shape |-> "none", storeOk |-> TRUE, result |-> EmptyMap]

ArIdle ==
    /\ downloaded_tracks = {}
    /\ archiveTime = 0
    /\ addReturn = "none"
    /\ checkCall = NoCall
    /\ firstInserted = [x \in {} |-> NULL]
    /\ reInserted = FALSE

\* history of first inserts: an id keeps its row, a new id gets the row of
\* the first meta of the batch that carries it
FirstRows(first, metas, t) ==
    LET new == {Str(metas[i].id) : i \in 1..Len(metas)} \ DOMAIN first
        firstIndex(k) ==
            CHOOSE i \in 1..Len(metas) :
                /\ Str(metas[i].id) = k
                /\ \A j \in 1..(i - 1) : Str(metas[j].id) # k
    IN  [k \in DOMAIN first \cup new |->
            IF k \in DOMAIN first THEN first[k]
            ELSE Row(ToRecord(metas[firstIndex(k)]), t)]

\* the batch carries an id a second time with another artist: one that is
\* in the table already, or one that is earlier in the same batch
Reinserts(first, metas) ==
    \E i \in 1..Len(metas) :
        \/ /\ Str(metas[i].id) \in DOMAIN first
           /\ first[Str(metas[i].id)].artist # metas[i].performer
        \/ \E j \in 1..(i - 1) :
              metas[j].id = metas[i].id /\ metas[j].performer # metas[i].performer

\* _migrate_from_txt_if_needed: the ids of download_archive.txt become rows
\* with only track_id set
MigrateFromTxt(table, track_ids) ==
    ExecuteMany(table,
        [i \in 1..Len(track_ids) |->
            [track_id |-> track_ids[i], artist |-> NULL, album |-> NULL,
             title |-> NULL]],
        0)

\* TrackArchive(): a new database, with or without a legacy text archive
ArInit ==
    /\ \E legacy \in {<<>>, <<Str(1), Str(1)>>} :
        /\ downloaded_tracks = MigrateFromTxt({}, legacy)
        /\ firstInserted =
              [k \in SeqSet(legacy) |->
                  [track_id |-> k, artist |-> NULL, album |-> NULL,
                   title |-> NULL, downloaded_at |-> 0]]
    /\ archiveTime = 0
    /\ addReturn = "none"
    /\ checkCall = NoCall
    /\ reInserted = FALSE

\* add_tracks(track_metas)
AddTracks(metas, storeOk) ==
    /\ checkCall = NoCall
    /\ LET r == AddBatchSync(downloaded_tracks, metas, storeOk, archiveTime) IN
        /\ downloaded_tracks' = r[1]
        /\ addReturn' = r[2]
        /\ firstInserted' =
              IF r[2] THEN FirstRows(firstInserted, metas, archiveTime)
              ELSE firstInserted
        /\ reInserted' = (reInserted \/ (r[2] /\ Reinserts(firstInserted, metas)))
    /\ UNCHANGED <<archiveTime, checkCall>>

\* check_if_tracks_exist(track_ids)
CheckIfTracksExist(len, shape, storeOk) ==
    /\ checkCall = NoCall
    /\ checkCall' = [len |-> len, shape |-> shape, storeOk |-> storeOk,
                     result |-> CheckBatchSync(downloaded_tracks,
                                               IdList(len, shape), storeOk)]
    /\ UNCHANGED <<downloaded_tracks, archiveTime, addReturn, firstInserted,
                   reInserted>>

\* the caller has consumed the map
CheckReturns ==
    /\ checkCall # NoCall
    /\ checkCall' = NoCall
    /\ UNCHANGED <<downloaded_tracks, archiveTime, addReturn, firstInserted,
                   reInserted>>

ArchiveTick ==
    /\ checkCall = NoCall
    /\ archiveTime + 1 \in ArchiveTimes
    /\ archiveTime' = archiveTime + 1
    /\ UNCHANGED <<downloaded_tracks, addReturn, checkCall, firstInserted,
                   reInserted>>

BatchInputs == UNION {[1..n -> TrackMetas] : n \in 0..MaxBatch}

ArNext ==
    \/ \E metas \in BatchInputs, ok \in BOOLEAN : AddTracks(metas, ok)
    \/ \E len \in CheckLens, shape \in CheckShapes, ok \in BOOLEAN :
            CheckIfTracksExist(len, shape, ok)
    \/ CheckReturns
    \/ ArchiveTick

\* ------------------------------------------------------- CircuitBreaker
CbIdle ==
    /\ failure_threshold = 1
    /\ recovery_timeout = 1
    /\ success_threshold = 1
    /\ cbState = "closed"
    /\ cbFailureCount = 0
    /\ cbSuccessCount = 0
    /\ cbLastFailureTime = -1
    /\ now = 0
    /\ callPc = [c \in 1..NumCallers |-> "idle"]
    /\ sentReq = [c \in 1..NumCallers |-> FALSE]
    /\ consecFailures = 0
    /\ hoSuccesses = 0
    /\ openedAt = -1

CbInit ==
    /\ failure_threshold \in 1..MaxThreshold
    /\ recovery_timeout \in 1..MaxTimeout
    /\ success_threshold \in 1..MaxThreshold
    /\ cbState = "closed"
    /\ cbFailureCount = 0
    /\ cbSuccessCount = 0
    /\ cbLastFailureTime = NoTime
    /\ now = 0
    /\ callPc = [c \in Callers |-> "idle"]
    /\ sentReq = [c \in Callers |-> FALSE]
    /\ consecFailures = 0
    /\ hoSuccesses = 0
    /\ openedAt = NoTime

cbConfigUnchanged ==
    UNCHANGED <<failure_threshold, recovery_timeout, success_threshold>>

\* variant of _check_state that forgets the recovery timeout
CheckState_NoTimeout ==
    IF cbState = "open" /\ cbLastFailureTime # NoTime
    THEN <<"half_open", 0, 0>>
    ELSE <<cbState, cbSuccessCount, hoSuccesses>>

\* variant of _check_state that keeps the success counter when half-opening
\* and needs the timeout to be exceeded, not reached
CheckState_Late ==
    IF /\ cbState = "open"
       /\ cbLastFailureTime # NoTime
       /\ now - cbLastFailureTime > recovery_timeout
    THEN <<"half_open", 0, 0>>
    ELSE <<cbState, cbSuccessCount, hoSuccesses>>

\* _check_state: OPEN -> HALF_OPEN once recovery_timeout has elapsed.
\* Yields the triple <<state, success_count, half-open successes>>.
CheckState ==
    IF /\ cbState = "open"
       /\ cbLastFailureTime # NoTime
       /\ now - cbLastFailureTime >= recovery_timeout
    THEN <<"half_open", 0, 0>>
    ELSE <<cbState, cbSuccessCount, hoSuccesses>>

\* __aenter__ as called from api_call: reject while OPEN, admit otherwise.
AEnter(c) ==
    /\ callPc[c] = "idle"
    /\ LET cs == CheckState IN
        /\ cbState' = cs[1]
        /\ cbSuccessCount' = cs[2]
        /\ hoSuccesses' = cs[3]
        /\ callPc' = [callPc EXCEPT ![c] =
                        IF cs[1] = "open" THEN "rejected" ELSE "limiter"]
    /\ sentReq' = [sentReq EXCEPT ![c] = FALSE]
    /\ UNCHANGED <<cbFailureCount, cbLastFailureTime, now, consecFailures,
                   openedAt>>
    /\ cbConfigUnchanged

\* api_call re-raises CircuitBreakerError; the coroutine is over.
Rejected(c) ==
    /\ callPc[c] = "rejected"
    /\ callPc' = [callPc EXCEPT ![c] = "idle"]
    /\ UNCHANGED <<cbState, cbFailureCount, cbSuccessCount, cbLastFailureTime,
                   now, sentReq, consecFailures, hoSuccesses, openedAt>>
    /\ cbConfigUnchanged

\* rate limiter released the caller; session.get() is issued.
Send(c) ==
    /\ callPc[c] = "limiter"
    /\ callPc' = [callPc EXCEPT ![c] = "sent"]
    /\ sentReq' = [sentReq EXCEPT ![c] = TRUE]
    /\ UNCHANGED <<cbState, cbFailureCount, cbSuccessCount, cbLastFailureTime,
                   now, consecFailures, hoSuccesses, openedAt>>
    /\ cbConfigUnchanged

\* variant of _on_success that also counts successes, and closes, while OPEN
OnSuccess_ClosesWhenOpen ==
    /\ cbFailureCount' = 0
    /\ IF cbState \in {"half_open", "open"}
       THEN IF cbSuccessCount + 1 >= success_threshold
            THEN cbState' = "closed" /\ cbSuccessCount' = 0
            ELSE cbState' = cbState /\ cbSuccessCount' = cbSuccessCount + 1
       ELSE UNCHANGED <<cbState, cbSuccessCount>>
    /\ UNCHANGED cbLastFailureTime

\* variant of _on_success whose threshold comparison is off by one
OnSuccess_OffByOne ==
    /\ cbFailureCount' = 0
    /\ IF cbState = "half_open"
       THEN IF cbSuccessCount + 1 > success_threshold
            THEN cbState' = "closed" /\ cbSuccessCount' = 0
            ELSE cbState' = cbState /\ cbSuccessCount' = cbSuccessCount + 1
       ELSE UNCHANGED <<cbState, cbSuccessCount>>
    /\ UNCHANGED cbLastFailureTime

\* _on_success
OnSuccess ==
    /\ cbFailureCount' = 0
    /\ IF cbState = "half_open"
       THEN IF cbSuccessCount + 1 >= success_threshold
            THEN cbState' = "closed" /\ cbSuccessCount' = 0
            ELSE cbState' = cbState /\ cbSuccessCount' = cbSuccessCount + 1
       ELSE UNCHANGED <<cbState, cbSuccessCount>>
    /\ UNCHANGED cbLastFailureTime

\* variant of _on_failure that leaves the counters alone when the recovery
\* test fails
OnFailure_KeepsCounters ==
    /\ cbLastFailureTime' = now
    /\ IF cbState = "half_open"
       THEN /\ cbState' = "open"
            /\ cbFailureCount' = cbFailureCount + 1
            /\ cbSuccessCount' = cbSuccessCount
       ELSE /\ cbFailureCount' = cbFailureCount + 1
            /\ cbSuccessCount' = cbSuccessCount
            /\ IF cbState = "closed" /\ cbFailureCount + 1 >= failure_threshold
               THEN cbState' = "open"
               ELSE cbState' = cbState

\* variant of _on_failure whose threshold comparison is off by one
OnFailure_OffByOne ==
    /\ cbLastFailureTime' = now
    /\ IF cbState = "half_open"
       THEN cbState' = "open" /\ cbFailureCount' = 0 /\ cbSuccessCount' = 0
       ELSE /\ cbFailureCount' = cbFailureCount + 1
            /\ cbSuccessCount' = cbSuccessCount
            /\ IF cbState = "closed" /\ cbFailureCount + 1 > failure_threshold
               THEN cbState' = "open"
               ELSE cbState' = cbState

\* _on_failure
OnFailure ==
    /\ cbLastFailureTime' = now
    /\ IF cbState = "half_open"
       THEN cbState' = "open" /\ cbFailureCount' = 0 /\ cbSuccessCount' = 0
       ELSE /\ cbFailureCount' = cbFailureCount + 1
            /\ cbSuccessCount' = cbSuccessCount
            /\ IF cbState = "closed" /\ cbFailureCount + 1 >= failure_threshold
               THEN cbState' = "open"
               ELSE cbState' = cbState

\* __aexit__ without an exception: the response was read.
CallSucceeds(c) ==
    /\ callPc[c] = "sent"
    /\ OnSuccess
    /\ callPc' = [callPc EXCEPT ![c] = "idle"]
    /\ consecFailures' = 0
    /\ hoSuccesses' = IF cbState = "half_open" THEN hoSuccesses + 1
                      ELSE hoSuccesses
    /\ UNCHANGED <<now, sentReq, openedAt>>
    /\ cbConfigUnchanged

\* __aexit__ with an exception: raised while signing the request (before
\* anything is sent) or by the request itself (HTTP error, timeout).
CallFails(c) ==
    /\ callPc[c] \in {"limiter", "sent"}
    /\ OnFailure
    /\ callPc' = [callPc EXCEPT ![c] = "idle"]
    /\ consecFailures' = consecFailures + 1
    /\ openedAt' = IF cbState # "open" /\ cbState' = "open" THEN now ELSE openedAt
    /\ UNCHANGED <<now, sentReq, hoSuccesses>>
    /\ cbConfigUnchanged

Tick ==
    /\ now < MaxTime
    /\ now' = now + 1
    /\ UNCHANGED <<cbState, cbFailureCount, cbSuccessCount, cbLastFailureTime,
                   callPc, sentReq, consecFailures, hoSuccesses, openedAt>>
    /\ cbConfigUnchanged

CbNext ==
    \/ \E c \in Callers : AEnter(c)
    \/ \E c \in Callers : Rejected(c)
    \/ \E c \in Callers : Send(c)
    \/ \E c \in Callers : CallSucceeds(c)
    \/ \E c \in Callers : CallFails(c)
    \/ Tick

\* -------------------------------------------------- DownloadManager
\* The catalogue behind the URLs that can be submitted: one album URL, the
\* URL of one of its tracks, and one playlist URL sharing a track with the
\* album.
URLs == {"A", "T", "P"}
UrlType(u) == CASE u = "A" -> "album" [] u = "T" -> "track" [] OTHER -> "playlist"
UrlTracks(u) == CASE u = "A" -> <<1, 2>> [] u = "T" -> <<1>> [] OTHER -> <<2, 3>>
AllInsts == {<<u, t>> : u \in URLs, t \in 1..3}
Insts(u) == {<<u, t>> : t \in SeqSet(UrlTracks(u))}
TrackOf(inst) == inst[2]
UrlOf(inst) == inst[1]
\* album_meta["id"] of a track
AlbumOf(t) == IF t \in {1, 2} THEN "A" ELSE "B"
\* final_path.parent: playlists override the output directory
FinalDir(inst) == IF UrlOf(inst) = "P" THEN "dirP" ELSE "dirA"
FinalPath(inst) == <<FinalDir(inst), TrackOf(inst)>>
\* final_path.with_suffix(f".{track_id}.tmp")
TempPath(inst) == <<FinalDir(inst), TrackOf(inst), "tmp">>
Paths == {<<d, t>> : d \in {"dirA", "dirP"}, t \in 1..3}
TrackMeta(t) == [id |-> t, performer |-> "x", album |-> "al", title |-> "ti"]

Classes == {"tracks_downloaded", "tracks_skipped_archive",
            "tracks_skipped_exists", "tracks_skipped_quality", "tracks_failed"}
ZeroStats == [c \in Classes |-> 0]
Inc(st, c) == [st EXCEPT ![c] = @ + 1]
\* the counters named in a sequence, each incremented once per occurrence
RECURSIVE IncAll(_, _)
IncAll(st, cs) == IF cs = <<>> THEN st ELSE IncAll(Inc(st, Head(cs)), Tail(cs))
Free == <<"free">>

NewItem == [pc |-> "idle", url |-> "none", res |-> FALSE, xfer |-> "none",
            valid |-> FALSE, ins |-> FALSE]

\* process_track from "if not track_url" to the start of download_file
\* (lines 138-175)
AfterCover(inst, url) ==
    IF url = "nourl" THEN [pc |-> "done", count |-> <<"tracks_failed">>]
    ELSE IF finalFiles[FinalPath(inst)] # "absent"
    THEN [pc |-> "done", count |-> <<"tracks_skipped_exists">>]
    ELSE [pc |-> "transfer", count |-> <<>>]

\* the cover stage of process_track (lines 116-136) up to its first await
CoverStage(inst, url) ==
    IF config.no_cover \/ coverFiles[FinalDir(inst)] # "absent"
    THEN AfterCover(inst, url) @@ [lock |-> "same"]
    ELSE IF assetLock[AlbumOf(TrackOf(inst))] = Free
    THEN [pc |-> "coverdl", count |-> <<>>, lock |-> "take"]
    ELSE [pc |-> "coverlock", count |-> <<>>, lock |-> "same"]

\* variant: the "return None" after counting a quality skip is missing
Proceed_FallsThrough(inst, url) ==
    IF url = "restricted" /\ config.no_fallback
    THEN LET e == CoverStage(inst, url) IN
         [e EXCEPT !.count = <<"tracks_skipped_quality">> \o @]
    ELSE CoverStage(inst, url)

\* variant: a quality skip is counted as a failure
Proceed_SkipIsFailure(inst, url) ==
    IF url = "restricted" /\ config.no_fallback
    THEN [pc |-> "done", count |-> <<"tracks_failed">>, lock |-> "same"]
    ELSE CoverStage(inst, url)

\* _get_and_process_track once url_data is known (lines 481-504), up to the
\* first await of process_track
Proceed(inst, url) ==
    IF url = "restricted" /\ config.no_fallback
    THEN [pc |-> "done", count |-> <<"tracks_skipped_quality">>, lock |-> "same"]
    ELSE CoverStage(inst, url)

\* the bookkeeping common to the steps of _get_and_process_track: the item
\* moves on, a counter is incremented, the semaphore is released on return
Apply(inst, eff, url, acquired) ==
    /\ item' = [item EXCEPT ![inst] =
                  [@ EXCEPT !.pc = eff.pc, !.url = url,
                            !.xfer = IF eff.pc = "transfer" THEN "started" ELSE @]]
    /\ stats' = IncAll(stats, eff.count)
    /\ cls' = [cls EXCEPT ![inst] = IncAll(@, eff.count)]
    /\ semaphore' = semaphore - (IF acquired THEN 1 ELSE 0)
                              + (IF eff.pc = "done" THEN 1 ELSE 0)
    /\ assetLock' = CASE eff.lock = "take" ->
                            [assetLock EXCEPT ![AlbumOf(TrackOf(inst))] = inst]
                      [] eff.lock = "free" ->
                            [assetLock EXCEPT ![AlbumOf(TrackOf(inst))] = Free]
                      [] OTHER -> assetLock
    /\ coverFetches' = IF eff.lock = "take"
                       THEN [coverFetches EXCEPT ![AlbumOf(TrackOf(inst))] = @ + 1]
                       ELSE coverFetches
    /\ tempFiles' = IF eff.pc = "transfer" THEN tempFiles \cup {TempPath(inst)}
                    ELSE tempFiles

\* process_track in dry-run mode (lines 106-114), reached without an await
DryRunItems(insts) ==
    /\ item' = [i \in AllInsts |->
                  IF i \in insts THEN [item[i] EXCEPT !.pc = "done"] ELSE item[i]]
    /\ stats' = [stats EXCEPT !["tracks_downloaded"] = @ + Cardinality(insts)]
    /\ cls' = [i \in AllInsts |->
                  IF i \in insts THEN Inc(cls[i], "tracks_downloaded") ELSE cls[i]]

\* the items whose id the archive map reports as downloaded
Archived(status, insts) ==
    {i \in insts : Str(TrackOf(i)) \in DOMAIN status /\ status[Str(TrackOf(i))]}

StrIds(tracks) == [k \in 1..Len(tracks) |-> Str(tracks[k])]

orUnchangedFiles == UNCHANGED <<finalFiles, coverFiles>>
orUnchangedRun == UNCHANGED <<config, source_urls, ledger0, cacheFiles>>

\* the cache key of a URL's metadata
CacheKeyOf(u) == <<UrlType(u), "meta", u>>

\* cache.get missed and the API answered: cache.set writes the entry file
\* (lines 187-194, 292-299)
MetaCached(u, out) ==
    /\ cacheFiles' = IF out = "raise" THEN cacheFiles
                     ELSE cacheFiles \cup {CacheKeyOf(u)}
    /\ UNCHANGED <<config, source_urls, ledger0>>

\* items handed to _get_and_process_track: processed on the spot in dry-run
\* mode, else they queue for the semaphore
StartItems(insts) ==
    IF config.dry_run THEN DryRunItems(insts)
    ELSE /\ item' = [i \in AllInsts |->
                       IF i \in insts THEN [item[i] EXCEPT !.pc = "sem"]
                       ELSE item[i]]
         /\ UNCHANGED <<stats, cls>>

\* _process_url dispatches to the handler; the handler runs to its first await
UrlBegin(u) ==
    /\ u \in source_urls
    /\ urlPc[u] = "start"
    /\ IF UrlType(u) = "album"
       THEN /\ processed_album_ids' = processed_album_ids \cup {u}
            /\ urlPc' = [urlPc EXCEPT ![u] =
                            IF u \in processed_album_ids THEN "done" ELSE "meta"]
            /\ UNCHANGED processed_playlist_ids
       ELSE IF UrlType(u) = "playlist"
       THEN /\ processed_playlist_ids' = processed_playlist_ids \cup {u}
            /\ urlPc' = [urlPc EXCEPT ![u] =
                            IF u \in processed_playlist_ids THEN "done" ELSE "meta"]
            /\ UNCHANGED processed_album_ids
       ELSE /\ urlPc' = [urlPc EXCEPT ![u] = "meta"]
            /\ UNCHANGED <<processed_album_ids, processed_playlist_ids>>
    /\ UNCHANGED <<plIndex, item, semaphore, assetLock, coverFetches, stats, cls, tempFiles,
                   downloaded_tracks>>
    /\ orUnchangedFiles /\ orUnchangedRun

\* _process_album from the archive map to the creation of the URL tasks
\* (lines 241-261)
AlbumSplit(u, archive_status) ==
    LET skipped == Archived(archive_status, Insts(u))
        processable == Insts(u) \ skipped
    IN  /\ stats' = [stats EXCEPT !["tracks_skipped_archive"] =
                        @ + Cardinality(skipped)]
        /\ cls' = [i \in AllInsts |->
                     IF i \in skipped THEN Inc(cls[i], "tracks_skipped_archive")
                     ELSE cls[i]]
        /\ item' = [i \in AllInsts |->
                     IF i \in skipped THEN [item[i] EXCEPT !.pc = "done"]
                     ELSE IF i \in processable
                     THEN [item[i] EXCEPT !.pc = "resolving", !.res = TRUE]
                     ELSE item[i]]
        /\ urlPc' = [urlPc EXCEPT ![u] =
                        IF processable = {} THEN "done" ELSE "resolve"]

\* _process_album: the cache holds no entry, album metadata arrives from the
\* API and is cached, or the call raises (lines 187-239)
AlbumMeta(u, out) ==
    /\ urlPc[u] = "meta" /\ UrlType(u) = "album"
    /\ out = "nonalbum" => config.albums_only
    /\ IF out \in {"raise", "unstreamable", "nonalbum"}
       THEN /\ urlPc' = [urlPc EXCEPT ![u] = "done"]
            /\ UNCHANGED <<item, stats, cls>>
       ELSE IF config.dry_run
       THEN /\ DryRunItems(Insts(u))
            /\ urlPc' = [urlPc EXCEPT ![u] = "done"]
       ELSE IF config.download_archive
       THEN /\ urlPc' = [urlPc EXCEPT ![u] = "check"]
            /\ UNCHANGED <<item, stats, cls>>
       ELSE AlbumSplit(u, EmptyMap)
    /\ UNCHANGED <<plIndex, processed_album_ids, processed_playlist_ids,
                   semaphore, assetLock, coverFetches, tempFiles, downloaded_tracks>>
    /\ orUnchangedFiles /\ MetaCached(u, out)

\* _process_album: check_if_tracks_exist returns (lines 237-253)
AlbumCheck(u, storeOk) ==
    /\ urlPc[u] = "check" /\ UrlType(u) = "album"
    /\ AlbumSplit(u, CheckBatchSync(downloaded_tracks, StrIds(UrlTracks(u)),
                                    storeOk))
    /\ UNCHANGED <<plIndex, processed_album_ids, processed_playlist_ids,
                   semaphore, assetLock, coverFetches, tempFiles, downloaded_tracks>>
    /\ orUnchangedFiles /\ orUnchangedRun

\* one fetch_track_url of the album's gather completes (lines 257-261)
ResolveDone(inst, out) ==
    /\ item[inst].pc = "resolving"
    /\ item' = [item EXCEPT ![inst] = [@ EXCEPT !.pc = "resolved", !.url = out]]
    /\ UNCHANGED <<urlPc, plIndex, processed_album_ids, processed_playlist_ids,
                   semaphore, assetLock, coverFetches, stats, cls, tempFiles,
                   downloaded_tracks>>
    /\ orUnchangedFiles /\ orUnchangedRun

\* variant: the gather of the URL tasks lacks return_exceptions=True, so one
\* failed resolution leaves _process_album before any item is processed
AlbumGathered_AbortsOnFailure(u) ==
    /\ urlPc[u] = "resolve"
    /\ \A i \in Insts(u) : item[i].pc \in {"done", "resolved"}
    /\ LET failed == {i \in Insts(u) : item[i].pc = "resolved" /\ item[i].url = "raise"}
           tasks == {i \in Insts(u) : item[i].pc = "resolved" /\ item[i].url # "raise"}
       IN  /\ UNCHANGED <<stats, cls>>
           /\ item' = [i \in AllInsts |->
                        IF failed # {} /\ i \in failed \cup tasks
                        THEN [item[i] EXCEPT !.pc = "done"]
                        ELSE IF i \in tasks THEN [item[i] EXCEPT !.pc = "sem"]
                        ELSE item[i]]
    /\ urlPc' = [urlPc EXCEPT ![u] = "process"]
    /\ UNCHANGED <<plIndex, processed_album_ids, processed_playlist_ids,
                   semaphore, assetLock, coverFetches, tempFiles, downloaded_tracks>>
    /\ orUnchangedFiles /\ orUnchangedRun

\* the gather of the URL tasks returns: failures are counted, the others
\* become _get_and_process_track tasks (lines 262-277)
AlbumGathered(u) ==
    /\ urlPc[u] = "resolve"
    /\ \A i \in Insts(u) : item[i].pc \in {"done", "resolved"}
    /\ LET failed == {i \in Insts(u) : item[i].pc = "resolved" /\ item[i].url = "raise"}
           tasks == {i \in Insts(u) : item[i].pc = "resolved" /\ item[i].url # "raise"}
       IN  /\ stats' = [stats EXCEPT !["tracks_failed"] = @ + Cardinality(failed)]
           /\ cls' = [i \in AllInsts |->
                        IF i \in failed THEN Inc(cls[i], "tracks_failed") ELSE cls[i]]
           /\ item' = [i \in AllInsts |->
                        IF i \in failed THEN [item[i] EXCEPT !.pc = "done"]
                        ELSE IF i \in tasks THEN [item[i] EXCEPT !.pc = "sem"]
                        ELSE item[i]]
    /\ urlPc' = [urlPc EXCEPT ![u] = "process"]
    /\ UNCHANGED <<plIndex, processed_album_ids, processed_playlist_ids,
                   semaphore, assetLock, coverFetches, tempFiles, downloaded_tracks>>
    /\ orUnchangedFiles /\ orUnchangedRun

\* _process_track: track metadata arrives, or the call raises (lines 291-303)
TrackMetaDone(u, out) ==
    /\ urlPc[u] = "meta" /\ UrlType(u) = "track"
    /\ IF out = "raise"
       THEN /\ urlPc' = [urlPc EXCEPT ![u] = "done"]
            /\ UNCHANGED <<item, stats, cls>>
       ELSE IF config.download_archive
       THEN /\ urlPc' = [urlPc EXCEPT ![u] = "check"]
            /\ UNCHANGED <<item, stats, cls>>
       ELSE /\ urlPc' = [urlPc EXCEPT ![u] = "process"]
            /\ StartItems(Insts(u))
    /\ UNCHANGED <<plIndex, processed_album_ids, processed_playlist_ids,
                   semaphore, assetLock, coverFetches, tempFiles, downloaded_tracks>>
    /\ orUnchangedFiles /\ MetaCached(u, out)

\* _process_track: check_if_tracks_exist returns (lines 303-320)
TrackCheck(u, storeOk) ==
    /\ urlPc[u] = "check" /\ UrlType(u) = "track"
    /\ LET status == CheckBatchSync(downloaded_tracks, StrIds(UrlTracks(u)), storeOk)
           skipped == Archived(status, Insts(u))
       IN  IF skipped # {}
           THEN /\ stats' = Inc(stats, "tracks_skipped_archive")
                /\ cls' = [i \in AllInsts |->
                             IF i \in skipped
                             THEN Inc(cls[i], "tracks_skipped_archive") ELSE cls[i]]
                /\ item' = [i \in AllInsts |->
                             IF i \in skipped THEN [item[i] EXCEPT !.pc = "done"]
                             ELSE item[i]]
                /\ urlPc' = [urlPc EXCEPT ![u] = "done"]
           ELSE /\ urlPc' = [urlPc EXCEPT ![u] = "process"]
                /\ StartItems(Insts(u))
    /\ UNCHANGED <<plIndex, processed_album_ids, processed_playlist_ids,
                   semaphore, assetLock, coverFetches, tempFiles, downloaded_tracks>>
    /\ orUnchangedFiles /\ orUnchangedRun

\* _process_playlist: playlist/get returns or raises (lines 400-406)
PlaylistMeta(u, out) ==
    /\ urlPc[u] = "meta" /\ UrlType(u) = "playlist"
    /\ urlPc' = [urlPc EXCEPT ![u] = IF out = "raise" THEN "done" ELSE "tracks"]
    /\ UNCHANGED <<plIndex, processed_album_ids, processed_playlist_ids, item,
                   semaphore, assetLock, coverFetches, stats, cls, tempFiles,
                   downloaded_tracks>>
    /\ orUnchangedFiles /\ orUnchangedRun

\* _process_playlist: the track pages arrive or the paging raises; the loop
\* over all_tracks starts with the first track (lines 407-420)
PlaylistTracks(u, out) ==
    /\ urlPc[u] = "tracks"
    /\ IF out = "raise"
       THEN /\ urlPc' = [urlPc EXCEPT ![u] = "done"]
            /\ UNCHANGED <<plIndex, item, stats, cls>>
       ELSE /\ urlPc' = [urlPc EXCEPT ![u] = "process"]
            /\ plIndex' = 1
            /\ StartItems({<<u, UrlTracks(u)[1]>>})
    /\ UNCHANGED <<processed_album_ids, processed_playlist_ids,
                   semaphore, assetLock, coverFetches, tempFiles, downloaded_tracks>>
    /\ orUnchangedFiles /\ orUnchangedRun

\* _process_playlist: the awaited _get_and_process_track returned; next track
\* or the end of the playlist (lines 416-423)
PlaylistNext(u) ==
    /\ urlPc[u] = "process" /\ UrlType(u) = "playlist"
    /\ item[<<u, UrlTracks(u)[plIndex]>>].pc = "done"
    /\ IF plIndex < Len(UrlTracks(u))
       THEN /\ plIndex' = plIndex + 1
            /\ StartItems({<<u, UrlTracks(u)[plIndex + 1]>>})
            /\ UNCHANGED urlPc
       ELSE /\ urlPc' = [urlPc EXCEPT ![u] = "done"]
            /\ UNCHANGED <<plIndex, item, stats, cls>>
    /\ UNCHANGED <<processed_album_ids, processed_playlist_ids,
                   semaphore, assetLock, coverFetches, tempFiles, downloaded_tracks>>
    /\ orUnchangedFiles /\ orUnchangedRun

\* the gather of an album's tasks, or the single task of a track URL, is over
UrlFinish(u) ==
    /\ urlPc[u] = "process" /\ UrlType(u) # "playlist"
    /\ \A i \in Insts(u) : item[i].pc = "done"
    /\ urlPc' = [urlPc EXCEPT ![u] = "done"]
    /\ UNCHANGED <<plIndex, processed_album_ids, processed_playlist_ids, item,
                   semaphore, assetLock, coverFetches, stats, cls, tempFiles,
                   downloaded_tracks>>
    /\ orUnchangedFiles /\ orUnchangedRun

orUnchangedUrls ==
    UNCHANGED <<urlPc, plIndex, processed_album_ids, processed_playlist_ids>>

\* variant: the semaphore lets one caller too many in
SlotFree_OffByOne == semaphore >= 0

\* asyncio.Semaphore.acquire returns only while the counter is positive
SlotFree == semaphore > 0

\* _get_and_process_track: "async with self.semaphore" is entered; with the
\* URL data of the album's batch the item goes on, else fetch_track_url is
\* awaited (lines 475-479)
AcquireSem(inst) ==
    /\ item[inst].pc = "sem"
    /\ SlotFree
    /\ IF item[inst].url # "none"
       THEN Apply(inst, Proceed(inst, item[inst].url), item[inst].url, TRUE)
       ELSE /\ item' = [item EXCEPT ![inst] =
                          [@ EXCEPT !.pc = "fetchurl", !.res = TRUE]]
            /\ semaphore' = semaphore - 1
            /\ UNCHANGED <<stats, cls, assetLock, coverFetches, tempFiles>>
    /\ UNCHANGED downloaded_tracks
    /\ orUnchangedUrls /\ orUnchangedFiles /\ orUnchangedRun

\* fetch_track_url returns or raises inside the semaphore (lines 477-526)
FetchUrlDone(inst, out) ==
    /\ item[inst].pc = "fetchurl"
    /\ IF out = "raise"
       THEN Apply(inst, [pc |-> "done", count |-> <<"tracks_failed">>, lock |-> "same"],
                  out, FALSE)
       ELSE Apply(inst, Proceed(inst, out), out, FALSE)
    /\ UNCHANGED downloaded_tracks
    /\ orUnchangedUrls /\ orUnchangedFiles /\ orUnchangedRun

\* "async with cover_lock" is entered after waiting; second existence check
\* (lines 124-131)
CoverLockAcquired(inst) ==
    /\ item[inst].pc = "coverlock"
    /\ assetLock[AlbumOf(TrackOf(inst))] = Free
    /\ IF coverFiles[FinalDir(inst)] # "absent"
       THEN Apply(inst, AfterCover(inst, item[inst].url) @@ [lock |-> "same"],
                  item[inst].url, FALSE)
       ELSE Apply(inst, [pc |-> "coverdl", count |-> <<>>, lock |-> "take"],
                  item[inst].url, FALSE)
    /\ UNCHANGED downloaded_tracks
    /\ orUnchangedUrls /\ orUnchangedFiles /\ orUnchangedRun

\* download_asset returns: the cover was written, or the download failed
\* before or after the file was opened; the lock is released (lines 131-143)
CoverDone(inst, out) ==
    /\ item[inst].pc = "coverdl"
    /\ coverFiles' = [coverFiles EXCEPT ![FinalDir(inst)] =
                        IF @ = "absent" THEN out ELSE @]
    /\ Apply(inst, AfterCover(inst, item[inst].url) @@ [lock |-> "free"],
             item[inst].url, FALSE)
    /\ UNCHANGED <<downloaded_tracks, finalFiles>>
    /\ orUnchangedUrls /\ orUnchangedRun

\* variant: process_track without its "finally" block, the temporary file
\* goes away only through the rename of tag_file
TransferOutcome_NoCleanup(inst, out, tagOk) ==
    LET tagged == out # "raise" /\ tagOk /\ TempPath(inst) \in tempFiles
        final == IF tagged THEN [finalFiles EXCEPT ![FinalPath(inst)] = out]
                 ELSE finalFiles
        ok == out # "raise" /\ final[FinalPath(inst)] = "good"
    IN  [final |-> final, valid |-> ok, ret |-> ok,
         temp |-> IF tagged THEN tempFiles \ {TempPath(inst)} ELSE tempFiles,
         count |-> IF ok THEN <<"tracks_downloaded">> ELSE <<"tracks_failed">>]

\* variant: process_track hands the metadata back whenever the bytes arrived,
\* whatever the integrity check said
TransferOutcome_ReturnsUnchecked(inst, out, tagOk) ==
    LET tagged == out # "raise" /\ tagOk /\ TempPath(inst) \in tempFiles
        final == IF tagged THEN [finalFiles EXCEPT ![FinalPath(inst)] = out]
                 ELSE finalFiles
        ok == out # "raise" /\ final[FinalPath(inst)] = "good"
    IN  [final |-> final, valid |-> ok, ret |-> out # "raise",
         temp |-> tempFiles \ {TempPath(inst)},
         count |-> IF ok THEN <<"tracks_downloaded">> ELSE <<"tracks_failed">>]

\* process_track after download_file (lines 185-219): tag_file renames the
\* temporary file onto the final path unless tagging fails, the integrity
\* check reads the final path, one counter is incremented, the "finally"
\* block removes the temporary file if it is still there
TransferOutcome(inst, out, tagOk) ==
    LET tagged == out # "raise" /\ tagOk /\ TempPath(inst) \in tempFiles
        final == IF tagged THEN [finalFiles EXCEPT ![FinalPath(inst)] = out]
                 ELSE finalFiles
        ok == out # "raise" /\ final[FinalPath(inst)] = "good"
    IN  [final |-> final, valid |-> ok, ret |-> ok,
         temp |-> tempFiles \ {TempPath(inst)},
         count |-> IF ok THEN <<"tracks_downloaded">> ELSE <<"tracks_failed">>]

\* download_file returns or raises after its last attempt; process_track
\* runs to its end and _get_and_process_track to its next await
TransferDone(inst, out, tagOk) ==
    /\ item[inst].pc = "transfer"
    /\ LET r == TransferOutcome(inst, out, tagOk)
           next == IF r.ret /\ config.download_archive THEN "archive" ELSE "done"
       IN  /\ finalFiles' = r.final
           /\ item' = [item EXCEPT ![inst] =
                         [@ EXCEPT !.pc = next, !.valid = r.valid,
                                   !.xfer = IF out = "raise" THEN "failed" ELSE "done"]]
           /\ stats' = IncAll(stats, r.count)
           /\ cls' = [cls EXCEPT ![inst] = IncAll(@, r.count)]
           /\ semaphore' = semaphore + (IF next = "done" THEN 1 ELSE 0)
    /\ tempFiles' = TransferOutcome(inst, out, tagOk).temp
    /\ UNCHANGED <<assetLock, coverFetches, coverFiles, downloaded_tracks>>
    /\ orUnchangedUrls /\ orUnchangedRun

\* archive.add_tracks([processed_meta]) returns (lines 505-507)
ArchiveAdded(inst, storeOk) ==
    /\ item[inst].pc = "archive"
    /\ downloaded_tracks' =
          AddBatchSync(downloaded_tracks, <<TrackMeta(TrackOf(inst))>>, storeOk,
                       archiveTime)[1]
    /\ item' = [item EXCEPT ![inst] = [@ EXCEPT !.pc = "done", !.ins = TRUE]]
    /\ semaphore' = semaphore + 1
    /\ UNCHANGED <<stats, cls, assetLock, coverFetches, tempFiles>>
    /\ orUnchangedUrls /\ orUnchangedFiles /\ orUnchangedRun

\* the items inside download_file
InFlight == {i \in AllInsts : item[i].pc = "transfer"}

\* the run is interrupted: asyncio.run cancels the main task, gather passes
\* the cancellation to every task, each of which leaves its await with
\* CancelledError.  No "except Exception" catches it; "finally" and
\* "async with" blocks run.  A cover being written stays as it is, and an
\* archive insert already handed to the executor thread may still complete.
Cancel(coverWritten, insertCompletes) ==
    LET live == {i \in AllInsts : item[i].pc \notin {"idle", "done", "cancelled"}}
        covering == {FinalDir(i) : i \in {j \in live : item[j].pc = "coverdl"}}
        archiving == {TrackOf(i) : i \in {j \in live : item[j].pc = "archive"}}
    IN  /\ \E u \in source_urls : urlPc[u] \notin {"done", "cancelled"}
        /\ urlPc' = [u \in URLs |->
                        IF u \in source_urls /\ urlPc[u] # "done"
                        THEN "cancelled" ELSE urlPc[u]]
        /\ item' = [i \in AllInsts |->
                       IF i \in live
                       THEN [item[i] EXCEPT
                               !.pc = "cancelled",
                               !.xfer = IF @ = "started" THEN "cancelled" ELSE @,
                               !.ins = @ \/ item[i].pc = "archive"]
                       ELSE item[i]]
        /\ tempFiles' = tempFiles \ {TempPath(i) : i \in InFlight}
        /\ coverFiles' = [d \in DOMAIN coverFiles |->
                             IF d \in covering /\ coverWritten
                                /\ coverFiles[d] = "absent"
                             THEN "partial" ELSE coverFiles[d]]
        /\ downloaded_tracks' =
              IF insertCompletes
              THEN downloaded_tracks \cup
                   {Row(ToRecord(TrackMeta(t)), archiveTime) :
                      t \in {x \in archiving :
                                Str(x) \notin TableIds(downloaded_tracks)}}
              ELSE downloaded_tracks
        /\ semaphore' = config.max_workers
        /\ assetLock' = [a \in DOMAIN assetLock |-> Free]
        /\ UNCHANGED <<plIndex, processed_album_ids, processed_playlist_ids,
                       stats, cls, coverFetches, finalFiles>>
        /\ orUnchangedRun

\* the URL lists submitted: each kind alone, and an album with one of its
\* own tracks
SourceSets == {{"A"}, {"T"}, {"P"}, {"A", "T"}}

Configs ==
    [dry_run : BOOLEAN, download_archive : BOOLEAN, no_fallback : BOOLEAN,
     no_cover : BOOLEAN, albums_only : BOOLEAN, max_workers : 1..MaxWorkers]

\* rows left in the archive by earlier runs
OldRows(tracks) == {Row(ToRecord(TrackMeta(t)), 0) : t \in tracks}
InitialLedgers == {{}, {2}}
\* files left on disk by earlier runs
InitialDisks ==
    {[p \in Paths |-> "absent"],
     [p \in Paths |-> IF p = <<"dirA", 1>> THEN "good" ELSE "absent"]}

\* DownloadManager(): nothing submitted
OrIdle ==
    /\ config = [dry_run |-> FALSE, download_archive |-> FALSE,
                 no_fallback |-> FALSE, no_cover |-> FALSE,
                 albums_only |-> FALSE, max_workers |-> 1]
    /\ source_urls = {}
    /\ ledger0 = {}
    /\ urlPc = [u \in URLs |-> "start"]
    /\ plIndex = 0
    /\ processed_album_ids = {}
    /\ processed_playlist_ids = {}
    /\ item = [i \in AllInsts |-> NewItem]
    /\ semaphore = 1
    /\ assetLock = [a \in {"A", "B"} |-> Free]
    /\ coverFetches = [a \in {"A", "B"} |-> 0]
    /\ stats = ZeroStats
    /\ cls = [i \in AllInsts |-> ZeroStats]
    /\ finalFiles = [p \in Paths |-> "absent"]
    /\ tempFiles = {}
    /\ coverFiles = [d \in {"dirA", "dirP"} |-> "absent"]
    /\ cacheFiles = {}

\* DownloadManager(config, ...) and the state of disk and archive before
\* execute_downloads
OrInit ==
    /\ config \in Configs
    /\ source_urls \in SourceSets
    /\ ledger0 \in InitialLedgers
    /\ downloaded_tracks = OldRows(ledger0)
    /\ finalFiles \in InitialDisks
    \* a list of several URLs is tried on an empty disk and archive, without
    \* covers
    /\ Cardinality(source_urls) > 1 =>
          /\ config.no_cover /\ ~config.dry_run /\ ~config.albums_only
          /\ ledger0 = {}
          /\ \A p \in Paths : finalFiles[p] = "absent"
    /\ urlPc = [u \in URLs |-> "start"]
    /\ plIndex = 0
    /\ processed_album_ids = {}
    /\ processed_playlist_ids = {}
    /\ item = [i \in AllInsts |-> NewItem]
    /\ semaphore = config.max_workers
    /\ assetLock = [a \in {"A", "B"} |-> Free]
    /\ coverFetches = [a \in {"A", "B"} |-> 0]
    /\ stats = ZeroStats
    /\ cls = [i \in AllInsts |-> ZeroStats]
    /\ tempFiles = {}
    /\ coverFiles = [d \in {"dirA", "dirP"} |-> "absent"]
    /\ cacheFiles = {}
    /\ archiveTime = 1
    /\ addReturn = "none"
    /\ checkCall = NoCall
    /\ firstInserted = [x \in {} |-> NULL]
    /\ reInserted = FALSE

UrlOutcomes == {"raise", "ok", "restricted", "nourl"}

OrNext ==
    \/ \E u \in URLs : UrlBegin(u)
    \/ \E u \in URLs, out \in {"raise", "unstreamable", "nonalbum", "ok"} :
            AlbumMeta(u, out)
    \/ \E u \in URLs, ok \in BOOLEAN : AlbumCheck(u, ok)
    \/ \E i \in AllInsts, out \in UrlOutcomes : ResolveDone(i, out)
    \/ \E u \in URLs : AlbumGathered(u)
    \/ \E u \in URLs, out \in {"raise", "ok"} : TrackMetaDone(u, out)
    \/ \E u \in URLs, ok \in BOOLEAN : TrackCheck(u, ok)
    \/ \E u \in URLs, out \in {"raise", "ok"} : PlaylistMeta(u, out)
    \/ \E u \in URLs, out \in {"raise", "ok"} : PlaylistTracks(u, out)
    \/ \E u \in URLs : PlaylistNext(u)
    \/ \E u \in URLs : UrlFinish(u)
    \/ \E i \in AllInsts : AcquireSem(i)
    \/ \E i \in AllInsts, out \in UrlOutcomes : FetchUrlDone(i, out)
    \/ \E i \in AllInsts : CoverLockAcquired(i)
    \/ \E i \in AllInsts, out \in {"complete", "partial", "absent"} :
            CoverDone(i, out)
    \/ \E i \in AllInsts, out \in {"good", "bad", "raise"}, tagOk \in BOOLEAN :
            TransferDone(i, out, tagOk)
    \/ \E i \in AllInsts, ok \in BOOLEAN : ArchiveAdded(i, ok)
    \/ \E w \in BOOLEAN, c \in BOOLEAN : Cancel(w, c)

RunFinished == \A u \in source_urls : urlPc[u] = "done"

OrTypeOK ==
    /\ semaphore \in 0..config.max_workers
    /\ \A i \in AllInsts : item[i].pc \in
          {"idle", "resolving", "resolved", "sem", "fetchurl", "coverlock",
           "coverdl", "transfer", "archive", "done", "cancelled"}
    /\ \A c \in Classes : stats[c] \in 0..Cardinality(AllInsts)

\* ------------------------------------------- TrackProcessor._get_asset_lock
\* The registry of cover locks: an OrderedDict album id -> asyncio.Lock with
\* the oldest entry first.  A lock object is named by the order of its
\* creation.
Groups == 1..NumGroups
LockCallers == 1..NumLockCallers
NoLock == 0

\* the entry of album g, if the registry has one
EntryOf(locks, g) == {k \in 1..Len(locks) : locks[k].id = g}

\* OrderedDict.move_to_end(g)
MoveToEnd(locks, g) ==
    LET k == CHOOSE x \in EntryOf(locks, g) : TRUE
    IN  SubSeq(locks, 1, k - 1) \o SubSeq(locks, k + 1, Len(locks))
        \o <<locks[k]>>

\* a new entry is stored; popitem(last=False) drops the oldest entry when
\* the registry is over its capacity (lines 58-63)
InsertLock(locks, g, n, cap) ==
    LET added == Append(locks, [id |-> g, lock |-> n])
    IN  IF Len(added) > cap THEN Tail(added) ELSE added

\* the callers inside "async with cover_lock" of lock object n
HoldersOf(n) == {c \in LockCallers : lkPc[c] = "holding" /\ lkLock[c] = n}

\* cover_lock = await self._get_asset_lock(g), then "async with cover_lock":
\* entered at once when the lock is free, else the caller waits for it
GetAssetLock(c, g) ==
    /\ lkPc[c] = "idle"
    /\ LET known == EntryOf(asset_locks, g) # {}
           n == IF known
                THEN asset_locks[CHOOSE k \in EntryOf(asset_locks, g) : TRUE].lock
                ELSE lockCount + 1
       IN  /\ ~known => lockCount < MaxLockObjects
           /\ asset_locks' = IF known THEN MoveToEnd(asset_locks, g)
                             ELSE InsertLock(asset_locks, g, n, max_locks)
           /\ lockCount' = IF known THEN lockCount ELSE n
           /\ lkLock' = [lkLock EXCEPT ![c] = n]
           /\ lkPc' = [lkPc EXCEPT ![c] =
                         IF HoldersOf(n) = {} THEN "holding" ELSE "waiting"]
    /\ lkGroup' = [lkGroup EXCEPT ![c] = g]
    /\ UNCHANGED max_locks

\* a waiting caller gets the lock after its holder released it
LockGranted(c) ==
    /\ lkPc[c] = "waiting"
    /\ HoldersOf(lkLock[c]) = {}
    /\ lkPc' = [lkPc EXCEPT ![c] = "holding"]
    /\ UNCHANGED <<max_locks, asset_locks, lockCount, lkLock, lkGroup>>

\* the "async with cover_lock" block is left
LockReleased(c) ==
    /\ lkPc[c] = "holding"
    /\ lkPc' = [lkPc EXCEPT ![c] = "idle"]
    /\ lkLock' = [lkLock EXCEPT ![c] = NoLock]
    /\ lkGroup' = [lkGroup EXCEPT ![c] = NoLock]
    /\ UNCHANGED <<max_locks, asset_locks, lockCount>>

\* TrackProcessor(): an empty registry
LkIdle ==
    /\ max_locks = 1
    /\ asset_locks = <<>>
    /\ lockCount = 0
    /\ lkPc = [c \in LockCallers |-> "idle"]
    /\ lkLock = [c \in LockCallers |-> NoLock]
    /\ lkGroup = [c \in LockCallers |-> NoLock]

LkInit ==
    /\ max_locks \in 1..MaxLocks
    /\ asset_locks = <<>>
    /\ lockCount = 0
    /\ lkPc = [c \in LockCallers |-> "idle"]
    /\ lkLock = [c \in LockCallers |-> NoLock]
    /\ lkGroup = [c \in LockCallers |-> NoLock]

LkTypeOK ==
    /\ lockCount \in 0..MaxLockObjects
    /\ \A c \in LockCallers : lkPc[c] \in {"idle", "waiting", "holding"}
    /\ \A c \in LockCallers : lkPc[c] = "idle" <=> lkLock[c] = NoLock

LkNext ==
    \/ \E c \in LockCallers, g \in Groups : GetAssetLock(c, g)
    \/ \E c \in LockCallers : LockGranted(c)
    \/ \E c \in LockCallers : LockReleased(c)

\* ------------------------------------------- Downloader.download_file
\* the exceptions the except clause of download_file catches
TransientErrors == {"ClientError", "TimeoutError"}

\* where an attempt breaks: before aiofiles.open truncates the destination
\* (session.get, raise_for_status) or while the body is being written
FailStages == {"request", "body"}

RECURSIVE Pow2(_)
Pow2(n) == IF n = 0 THEN 1 ELSE 2 * Pow2(n - 1)

\* the argument of asyncio.sleep after a failed attempt
BackoffDelay_OffByOne(bd, k) == bd * Pow2(k)

BackoffDelay(bd, k) == bd * Pow2(k - 1)

\* destination_path after an attempt broke at the given stage
FileAfterFailure(stage) == IF stage = "body" THEN "partial" ELSE dlFile

\* the response body was written completely: return
AttemptSucceeds ==
    /\ dlPc = "attempt"
    /\ dlFile' = "complete"
    /\ dlOutcomes' = Append(dlOutcomes, "ok")
    /\ dlPc' = "returned"
    /\ UNCHANGED <<max_attempts, base_delay, attempt, last_exception, dlRaised,
                   dlSlept>>

\* aiohttp.ClientError or asyncio.TimeoutError: remembered; before the last
\* attempt the coroutine sleeps, after it the loop ends and the exception is
\* raised
AttemptFailsTransient(e, stage) ==
    /\ dlPc = "attempt"
    /\ dlFile' = FileAfterFailure(stage)
    /\ dlOutcomes' = Append(dlOutcomes, e)
    /\ last_exception' = e
    /\ IF attempt < max_attempts
       THEN /\ dlSlept' = Append(dlSlept, BackoffDelay(base_delay, attempt))
            /\ dlPc' = "sleep"
            /\ UNCHANGED dlRaised
       ELSE /\ dlPc' = "raised"
            /\ dlRaised' = e
            /\ UNCHANGED dlSlept
    /\ UNCHANGED <<max_attempts, base_delay, attempt>>

\* any other exception (OSError from aiofiles.open or write, ValueError from
\* int(Content-Length)) is not caught: it leaves download_file at once
AttemptFailsOther(stage) ==
    /\ dlPc = "attempt"
    /\ dlFile' = FileAfterFailure(stage)
    /\ dlOutcomes' = Append(dlOutcomes, "OtherError")
    /\ dlPc' = "raised"
    /\ dlRaised' = "OtherError"
    /\ UNCHANGED <<max_attempts, base_delay, attempt, last_exception, dlSlept>>

\* asyncio.sleep returns: the next iteration of the loop
SleepDone ==
    /\ dlPc = "sleep"
    /\ attempt' = attempt + 1
    /\ dlPc' = "attempt"
    /\ UNCHANGED <<max_attempts, base_delay, last_exception, dlFile, dlRaised,
                   dlSlept, dlOutcomes>>

\* the task is cancelled at an await: CancelledError is not caught here
DownloadCancelled(stage) ==
    /\ dlPc \in {"attempt", "sleep"}
    /\ dlFile' = IF dlPc = "attempt" THEN FileAfterFailure(stage) ELSE dlFile
    /\ dlPc' = "raised"
    /\ dlRaised' = "CancelledError"
    /\ UNCHANGED <<max_attempts, base_delay, attempt, last_exception, dlSlept,
                   dlOutcomes>>

\* no download_file call in progress
DlIdle ==
    /\ max_attempts = MaxAttempts
    /\ base_delay = MaxBaseDelay
    /\ attempt = 0
    /\ last_exception = "None"
    /\ dlPc = "idle"
    /\ dlFile = "absent"
    /\ dlRaised = "None"
    /\ dlSlept = <<>>
    /\ dlOutcomes = <<>>

\* download_file has been called: the first iteration of the loop
DlInit ==
    /\ max_attempts \in 1..MaxAttempts
    /\ base_delay \in 1..MaxBaseDelay
    /\ attempt = 1
    /\ last_exception = "None"
    /\ dlPc = "attempt"
    /\ dlFile \in {"absent", "stale"}
    /\ dlRaised = "None"
    /\ dlSlept = <<>>
    /\ dlOutcomes = <<>>

DlTypeOK ==
    /\ attempt \in 1..max_attempts
    /\ dlPc \in {"attempt", "sleep", "returned", "raised"}
    /\ last_exception \in TransientErrors \cup {"None"}
    /\ dlFile \in {"absent", "stale", "partial", "complete"}
    /\ dlRaised \in TransientErrors \cup {"None", "OtherError", "CancelledError"}

DlNext ==
    \/ AttemptSucceeds
    \/ \E e \in TransientErrors, stage \in FailStages :
          AttemptFailsTransient(e, stage)
    \/ \E stage \in FailStages : AttemptFailsOther(stage)
    \/ SleepDone
    \/ \E stage \in FailStages : DownloadCancelled(stage)

\* --------------------------------------------------- AdaptiveRateLimiter
RlCallers == 1..NumRlCallers
NoCaller == 0
NeverReturned == -1

InitialRate == 8000        \* initial_calls_per_second = 8.0
MaxRate == 12000           \* max_calls_per_second = 12.0
MinRate == 1000            \* the floor of on_429: 1.0
RecoveryWindow == 300000   \* 300 s without a 429

Max(a, b) == IF a > b THEN a ELSE b

\* 1.0 / rate, in ms
Interval(rate) == 1000000 \div rate

\* the new _rate of on_429
Halve_NoFloor(rate) == rate \div 2

Halve(rate) == Max(MinRate, rate \div 2)

\* variant of the recovery without the cap at _max_rate
Recover_NoCap(rate) == (rate * 1005) \div 1000

\* the new _rate of the slow recovery in acquire
Recover(rate) == Min(MaxRate, (rate * 1005) \div 1000)

\* how long acquire sleeps: min_interval - time_since_last if that is positive
PacingWait_SleepsElapsed(mi, since) == IF since < mi THEN since ELSE 0

PacingWait(mi, since) == IF since < mi THEN mi - since ELSE 0

\* _rate after k recovery steps (a rate at the cap stays there)
RECURSIVE RecoverTimes(_, _)
RecoverTimes(rate, k) ==
    IF k = 0 \/ rate = MaxRate THEN rate
    ELSE RecoverTimes(Recover(rate), k - 1)

\* _rate after the recovery step at the top of acquire
RateAtAcquire ==
    IF rlNow - last_429_time > RecoveryWindow THEN Recover(rlRate) ELSE rlRate

\* the body of acquire from the lock to the sleep or, without a sleep, to
\* the return: the pacing decision of coroutine c
PacingDecision(c) ==
    LET mi == Interval(RateAtAcquire)
        w == PacingWait(mi, rlNow - last_call_time)
    IN  /\ rlRate' = RateAtAcquire
        /\ rlMinInterval' = mi
        /\ IF w > 0
           THEN /\ rlLock' = c
                /\ rlWake' = [rlWake EXCEPT ![c] = rlNow + w]
                /\ rlPc' = [rlPc EXCEPT ![c] = "sleeping"]
                /\ UNCHANGED <<last_call_time, lastReturn>>
           ELSE /\ rlLock' = NoCaller
                /\ last_call_time' = rlNow
                /\ lastReturn' = rlNow
                /\ rlPc' = [rlPc EXCEPT ![c] = "request"]
                /\ UNCHANGED rlWake

\* the body of on_429
SignalApplied ==
    /\ rlRate' = Halve(rlRate)
    /\ rlMinInterval' = Interval(Halve(rlRate))
    /\ last_429_time' = rlNow
    /\ rlApplied' = rlApplied + 1

\* api_call reaches acquire(): with the lock free and nobody waiting the
\* lock is taken without a yield, otherwise the coroutine queues
AcquireCalled(c) ==
    /\ rlPc[c] = "idle"
    /\ rlAcquires < MaxAcquires
    /\ rlAcquires' = rlAcquires + 1
    /\ IF rlLock = NoCaller /\ rlQueue = <<>>
       THEN /\ PacingDecision(c)
            /\ UNCHANGED rlQueue
       ELSE /\ rlQueue' = Append(rlQueue, c)
            /\ rlPc' = [rlPc EXCEPT ![c] = "acquire_wait"]
            /\ UNCHANGED <<rlRate, rlMinInterval, last_call_time, rlLock,
                           rlWake, lastReturn>>
    /\ UNCHANGED <<last_429_time, rlNow, rlSignals, rlApplied, rlTicks>>

\* the first waiter of the released lock is an acquire()
AcquireGranted(c) ==
    /\ rlLock = NoCaller
    /\ rlQueue # <<>>
    /\ Head(rlQueue) = c
    /\ rlPc[c] = "acquire_wait"
    /\ rlQueue' = Tail(rlQueue)
    /\ PacingDecision(c)
    /\ UNCHANGED <<last_429_time, rlNow, rlAcquires, rlSignals, rlApplied,
                   rlTicks>>

\* asyncio.sleep returns, when it is due or later: last_call_time is
\* stamped, the lock released, acquire() returns
AcquireSleepDone(c, late) ==
    /\ rlPc[c] = "sleeping"
    /\ late > 0 => rlTicks < MaxTicks
    /\ rlTicks' = IF late > 0 THEN rlTicks + 1 ELSE rlTicks
    /\ rlNow' = Max(rlNow, rlWake[c]) + late
    /\ last_call_time' = rlNow'
    /\ lastReturn' = rlNow'
    /\ rlLock' = NoCaller
    /\ rlPc' = [rlPc EXCEPT ![c] = "request"]
    /\ rlWake' = [rlWake EXCEPT ![c] = 0]
    /\ UNCHANGED <<rlRate, rlMinInterval, last_429_time, rlQueue, rlAcquires,
                   rlSignals, rlApplied>>

\* the response of the request is not a 429: api_call is over
ResponseReceived(c) ==
    /\ rlPc[c] = "request"
    /\ rlPc' = [rlPc EXCEPT ![c] = "idle"]
    /\ UNCHANGED <<rlRate, rlMinInterval, last_call_time, last_429_time, rlNow,
                   rlLock, rlQueue, rlWake, rlAcquires, rlSignals, rlApplied,
                   rlTicks, lastReturn>>

\* the response is a 429: api_call calls on_429, which takes the lock or
\* queues for it
Response429(c) ==
    /\ rlPc[c] = "request"
    /\ rlSignals' = rlSignals + 1
    /\ IF rlLock = NoCaller /\ rlQueue = <<>>
       THEN /\ SignalApplied
            /\ rlPc' = [rlPc EXCEPT ![c] = "idle"]
            /\ UNCHANGED rlQueue
       ELSE /\ rlQueue' = Append(rlQueue, c)
            /\ rlPc' = [rlPc EXCEPT ![c] = "on_429_wait"]
            /\ UNCHANGED <<rlRate, rlMinInterval, last_429_time, rlApplied>>
    /\ UNCHANGED <<last_call_time, rlNow, rlLock, rlWake, rlAcquires, rlTicks,
                   lastReturn>>

\* the first waiter of the released lock is an on_429()
SignalGranted(c) ==
    /\ rlLock = NoCaller
    /\ rlQueue # <<>>
    /\ Head(rlQueue) = c
    /\ rlPc[c] = "on_429_wait"
    /\ rlQueue' = Tail(rlQueue)
    /\ SignalApplied
    /\ rlPc' = [rlPc EXCEPT ![c] = "idle"]
    /\ UNCHANGED <<last_call_time, rlNow, rlLock, rlWake, rlAcquires, rlSignals,
                   rlTicks, lastReturn>>

\* time passes
ClockAdvances(d) ==
    /\ rlTicks < MaxTicks
    /\ rlTicks' = rlTicks + 1
    /\ rlNow' = rlNow + d
    /\ UNCHANGED <<rlRate, rlMinInterval, last_call_time, last_429_time, rlLock,
                   rlQueue, rlPc, rlWake, rlAcquires, rlSignals, rlApplied,
                   lastReturn>>

\* AdaptiveRateLimiter(): no call made yet
RlIdle ==
    /\ rlRate = InitialRate
    /\ rlMinInterval = Interval(InitialRate)
    /\ last_call_time = 0
    /\ last_429_time = 0
    /\ rlNow = ShortTick
    /\ rlLock = NoCaller
    /\ rlQueue = <<>>
    /\ rlPc = [c \in RlCallers |-> "idle"]
    /\ rlWake = [c \in RlCallers |-> 0]
    /\ rlAcquires = 0
    /\ rlSignals = 0
    /\ rlApplied = 0
    /\ rlTicks = 0
    /\ lastReturn = NeverReturned

\* the limiter between two api calls: either new, the monotonic clock
\* reading less or more than the recovery window, or slowed down to 2.0 by
\* two 429 responses that have just come in, or sped up by the recovery
\* steps of many acquire() calls without any 429
RlInit ==
    /\ rlNow \in {ShortTick, RecoveryWindow + ShortTick}
    /\ \/ /\ rlRate = InitialRate
          /\ last_call_time = 0
          /\ last_429_time = 0
          /\ lastReturn = NeverReturned
       \/ /\ rlRate = Halve(Halve(InitialRate))
          /\ last_call_time = rlNow
          /\ last_429_time = rlNow
          /\ lastReturn = rlNow
       \/ /\ rlNow > RecoveryWindow
          /\ rlRate = RecoverTimes(InitialRate, PastRecoveries)
          /\ last_call_time = rlNow
          /\ last_429_time = 0
          /\ lastReturn = rlNow
    /\ rlMinInterval = Interval(rlRate)
    /\ rlLock = NoCaller
    /\ rlQueue = <<>>
    /\ rlPc = [c \in RlCallers |-> "idle"]
    /\ rlWake = [c \in RlCallers |-> 0]
    /\ rlAcquires = 0
    /\ rlSignals = 0
    /\ rlApplied = 0
    /\ rlTicks = 0

RlTypeOK ==
    /\ rlRate \in MinRate..MaxRate
    /\ rlMinInterval = Interval(rlRate)
    /\ rlLock \in RlCallers \cup {NoCaller}
    /\ \A c \in RlCallers :
          rlPc[c] \in {"idle", "acquire_wait", "sleeping", "request",
                       "on_429_wait"}
    /\ \A c \in RlCallers : rlLock = c <=> rlPc[c] = "sleeping"
    /\ rlApplied <= rlSignals

RlNext ==
    \/ \E c \in RlCallers : AcquireCalled(c)
    \/ \E c \in RlCallers : AcquireGranted(c)
    \/ \E c \in RlCallers, late \in {0, LateWake} : AcquireSleepDone(c, late)
    \/ \E c \in RlCallers : ResponseReceived(c)
    \/ \E c \in RlCallers : Response429(c)
    \/ \E c \in RlCallers : SignalGranted(c)
    \/ \E d \in {ShortTick, RecoveryWindow} : ClockAdvances(d)

\* ------------------------------------------------------------ CacheManager
CacheKeys == {"k1", "k2"}
NoKey == "none"
Missing == "None"     \* what get returns for a miss
\* a payload json.load cannot parse
Garbled == [key |-> "", timestamp |-> -1, value |-> "garbled"]
\* a payload whose bytes are not UTF-8 text
Undecodable == [key |-> "", timestamp |-> -1, value |-> "undecodable"]
Raised == "Raised"    \* get left with an exception
NoFile == [mtime |-> -1, payload |-> [key |-> "", timestamp |-> -1, value |-> ""]]

MAX_CACHE_VALUE_KB == 500

\* the values callers store, and the length of their JSON text: one small,
\* one that makes the payload exactly as large as the cap, one beyond it
CacheValues == {"small", "edge", "big"}
ValueSize(v) ==
    CASE v = "small" -> 10
      [] v = "edge" -> MAX_CACHE_VALUE_KB * 1024 - EnvelopeSize
      [] v = "big" -> MAX_CACHE_VALUE_KB * 1024

\* json.dumps of {"key", "timestamp", "value"} and its length
Payload(k, t, v) == [key |-> k, timestamp |-> t, value |-> v]
PayloadSize(k, t, v) == EnvelopeSize + ValueSize(v)

\* size_kb > MAX_CACHE_VALUE_KB, in bytes
TooLarge_KBLate(size) == size > (MAX_CACHE_VALUE_KB + 1) * 1024

TooLarge(size) == size > MAX_CACHE_VALUE_KB * 1024

\* time.time() - st_mtime > max_age_seconds
Expired(t, mtime) == t - mtime > max_age_seconds

\* what get(k) returns
GetResult(k) ==
    IF cache_files[k] = NoFile THEN Missing
    ELSE IF Expired(caNow, cache_files[k].mtime) THEN Missing
    ELSE IF cache_files[k].payload = Garbled THEN Missing
    ELSE IF cache_files[k].payload = Undecodable THEN Raised
    ELSE cache_files[k].payload.value

Flip(r) == 1 - r.seq

\* get(key): a miss for no file, an expired file (which is unlinked) or one
\* json.load rejects with JSONDecodeError, else the stored value; the
\* UnicodeDecodeError of a file that is not UTF-8 text is not caught
CacheGet(k) ==
    /\ caResult' = [op |-> "get", key |-> k, arg |-> "none",
                    out |-> GetResult(k), seq |-> Flip(caResult)]
    /\ cache_files' =
          IF cache_files[k] # NoFile /\ Expired(caNow, cache_files[k].mtime)
          THEN [cache_files EXCEPT ![k] = NoFile]
          ELSE cache_files
    /\ UNCHANGED <<max_age_seconds, caNow, swPc, swNow, swTodo, swFile, lastSet>>

\* set(key, value): rejected if the payload is too large, else the entry
\* file is rewritten
CacheSet(k, v) ==
    /\ IF TooLarge(PayloadSize(k, caNow, v))
       THEN /\ caResult' = [op |-> "set", key |-> k, arg |-> v, out |-> "False",
                            seq |-> Flip(caResult)]
            /\ UNCHANGED <<cache_files, lastSet>>
       ELSE /\ caResult' = [op |-> "set", key |-> k, arg |-> v, out |-> "True",
                            seq |-> Flip(caResult)]
            /\ cache_files' = [cache_files EXCEPT ![k] =
                                 [mtime |-> caNow, payload |-> Payload(k, caNow, v)]]
            /\ lastSet' = [lastSet EXCEPT ![k] = [at |-> caNow, value |-> v]]
    /\ UNCHANGED <<max_age_seconds, caNow, swPc, swNow, swTodo, swFile>>

\* set(key, value) whose write raises OSError after open() truncated the
\* file: False is returned
CacheSetFails(k, v) ==
    /\ ~TooLarge(PayloadSize(k, caNow, v))
    /\ caResult' = [op |-> "set", key |-> k, arg |-> v, out |-> "False",
                    seq |-> Flip(caResult)]
    /\ cache_files' = [cache_files EXCEPT ![k] =
                         [mtime |-> caNow, payload |-> Garbled]]
    /\ lastSet' = [lastSet EXCEPT ![k] = [at |-> -1, value |-> Missing]]
    /\ UNCHANGED <<max_age_seconds, caNow, swPc, swNow, swTodo, swFile>>

\* the backing store fails: the bytes of an entry file are damaged on disk
\* (its mtime stays), so that it is no JSON text or no UTF-8 text any more
EntryDamaged(k, p) ==
    /\ cache_files[k] # NoFile
    /\ cache_files[k].payload \notin {Garbled, Undecodable}
    /\ cache_files' = [cache_files EXCEPT ![k] = [@ EXCEPT !.payload = p]]
    /\ lastSet' = [lastSet EXCEPT ![k] = [at |-> -1, value |-> Missing]]
    /\ UNCHANGED <<max_age_seconds, caNow, caResult, swPc, swNow, swTodo, swFile>>

\* _cleanup_expired_entries starts in its thread: now is read, the
\* directory listed
SweepStarts ==
    /\ swPc = "idle"
    /\ swPc' = "scanning"
    /\ swNow' = caNow
    /\ swTodo' = {k \in CacheKeys : cache_files[k] # NoFile}
    /\ UNCHANGED <<max_age_seconds, cache_files, caNow, caResult, swFile, lastSet>>

\* the sweep stats the next entry file
SweepStats(k) ==
    /\ swPc = "scanning"
    /\ swFile = NoKey
    /\ k \in swTodo
    /\ swTodo' = swTodo \ {k}
    /\ swFile' = IF cache_files[k] # NoFile /\ Expired(swNow, cache_files[k].mtime)
                 THEN k ELSE NoKey
    /\ UNCHANGED <<max_age_seconds, cache_files, caNow, caResult, swPc, swNow,
                   lastSet>>

\* the sweep unlinks the file it found expired
SweepUnlinks ==
    /\ swPc = "scanning"
    /\ swFile # NoKey
    /\ cache_files' = [cache_files EXCEPT ![swFile] = NoFile]
    /\ swFile' = NoKey
    /\ UNCHANGED <<max_age_seconds, caNow, caResult, swPc, swNow, swTodo, lastSet>>

\* the sweep has looked at every file
SweepEnds ==
    /\ swPc = "scanning"
    /\ swFile = NoKey
    /\ swTodo = {}
    /\ swPc' = "idle"
    /\ UNCHANGED <<max_age_seconds, cache_files, caNow, caResult, swNow, swTodo,
                   swFile, lastSet>>

\* a day passes
CacheClockAdvances ==
    /\ caNow < MaxCacheTime
    /\ caNow' = caNow + 1
    /\ UNCHANGED <<max_age_seconds, cache_files, caResult, swPc, swNow, swTodo,
                   swFile, lastSet>>

NoCacheCall == [op |-> "none", key |-> NoKey, arg |-> "none", out |-> Missing,
                seq |-> 0]

\* CacheManager(): an empty cache directory
CaIdle ==
    /\ max_age_seconds = 1
    /\ cache_files = [k \in CacheKeys |-> NoFile]
    /\ caNow = 0
    /\ caResult = NoCacheCall
    /\ swPc = "idle"
    /\ swNow = 0
    /\ swTodo = {}
    /\ swFile = NoKey
    /\ lastSet = [k \in CacheKeys |-> [at |-> -1, value |-> Missing]]

CaInit ==
    /\ max_age_seconds \in 1..MaxAgeDays
    /\ cache_files = [k \in CacheKeys |-> NoFile]
    /\ caNow = 0
    /\ caResult = NoCacheCall
    /\ swPc = "idle"
    /\ swNow = 0
    /\ swTodo = {}
    /\ swFile = NoKey
    /\ lastSet = [k \in CacheKeys |-> [at |-> -1, value |-> Missing]]

CaTypeOK ==
    /\ caNow \in 0..MaxCacheTime
    /\ swPc \in {"idle", "scanning"}
    /\ swTodo \subseteq CacheKeys
    /\ swFile \in CacheKeys \cup {NoKey}
    /\ caResult.out \in CacheValues \cup {Missing, Raised, "True", "False"}

CaNext ==
    \/ \E k \in CacheKeys : CacheGet(k)
    \/ \E k \in CacheKeys, v \in CacheValues : CacheSet(k, v)
    \/ \E k \in CacheKeys, v \in CacheValues : CacheSetFails(k, v)
    \/ \E k \in CacheKeys, p \in {Garbled, Undecodable} : EntryDamaged(k, p)
    \/ SweepStarts
    \/ \E k \in CacheKeys : SweepStats(k)
    \/ SweepUnlinks
    \/ SweepEnds
    \/ CacheClockAdvances

\* ------------------------------------ Downloader: adaptive chunk size
Transfers == 1..NumTransfers
NeverAdapted == -1

MIN_CHUNK_SIZE == 131072
MAX_CHUNK_SIZE == 1048576

\* stats.current_speed_bps as _adapt_chunk_size_shared may find it: the
\* three thresholds and the values just above them
Speeds == {1048576, 1048577, 5242880, 5242881, 10485760, 10485761}

\* the value _adapt_chunk_size_shared stores and returns
AdaptChunkSize(current_speed_bps) ==
    IF current_speed_bps > 10 * 1024 * 1024 THEN MAX_CHUNK_SIZE
    ELSE IF current_speed_bps > 5 * 1024 * 1024 THEN 524288
    ELSE IF current_speed_bps > 1 * 1024 * 1024 THEN 262144
    ELSE MIN_CHUNK_SIZE

\* "now - last_speed_check > 2.0" of the call t
SpeedCheckDue(t) == chNow - last_speed_check[t] > 2

\* how the reporting calls made for a chunk can end: both return, the
\* speed-statistics update raises, the progress-bar update raises
ReportOutcomes == {"ok", "speed_raises", "progress_raises"}

\* process_track calls download_file with stats and progress manager,
\* download_asset calls it without; the destination is opened and
\* last_speed_check initialised
TransferStarts(t, withStats) ==
    /\ chPc[t] = "idle"
    /\ chPc' = [chPc EXCEPT ![t] = "streaming"]
    /\ chStats' = [chStats EXCEPT ![t] = withStats]
    /\ last_speed_check' = [last_speed_check EXCEPT ![t] = chNow]
    /\ UNCHANGED <<shared_chunk_size, chNow, chRetries, lastAdapt, reportFailed,
                   chClass>>

\* one iteration of the chunk loop: the chunk is written, the speed
\* statistics are updated, the chunk size is recomputed if the call's check
\* is due, the progress bar is updated.  An exception of a reporting call is
\* not caught by download_file; process_track counts the item as failed.
ChunkReceived(t, speed, report) ==
    /\ chPc[t] = "streaming"
    /\ report # "ok" => chStats[t]
    /\ LET adapts == chStats[t] /\ report # "speed_raises" /\ SpeedCheckDue(t)
       IN  /\ shared_chunk_size' =
                 IF adapts THEN AdaptChunkSize(speed) ELSE shared_chunk_size
           /\ last_speed_check' =
                 IF adapts THEN [last_speed_check EXCEPT ![t] = chNow]
                 ELSE last_speed_check
           /\ lastAdapt' = IF adapts THEN chNow ELSE lastAdapt
    /\ IF report = "ok"
       THEN UNCHANGED <<chPc, reportFailed, chClass>>
       ELSE /\ chPc' = [chPc EXCEPT ![t] = "raised"]
            /\ reportFailed' = [reportFailed EXCEPT ![t] = TRUE]
            /\ chClass' = [chClass EXCEPT ![t] = "tracks_failed"]
    /\ UNCHANGED <<chNow, chStats, chRetries>>

\* the body is complete: download_file returns; process_track tags and
\* checks the file and counts the item as downloaded
TransferCompletes(t) ==
    /\ chPc[t] = "streaming"
    /\ chPc' = [chPc EXCEPT ![t] = "returned"]
    /\ chClass' = [chClass EXCEPT ![t] =
                     IF chStats[t] THEN "tracks_downloaded" ELSE @]
    /\ UNCHANGED <<shared_chunk_size, chNow, chStats, last_speed_check,
                   chRetries, lastAdapt, reportFailed>>

\* the attempt breaks with aiohttp.ClientError or asyncio.TimeoutError:
\* download_file sleeps
AttemptBreaks(t) ==
    /\ chPc[t] = "streaming"
    /\ chRetries < MaxRetries
    /\ chRetries' = chRetries + 1
    /\ chPc' = [chPc EXCEPT ![t] = "backoff"]
    /\ UNCHANGED <<shared_chunk_size, chNow, chStats, last_speed_check,
                   lastAdapt, reportFailed, chClass>>

\* the next attempt opens the destination again
RetryStarts(t) ==
    /\ chPc[t] = "backoff"
    /\ chPc' = [chPc EXCEPT ![t] = "streaming"]
    /\ last_speed_check' = [last_speed_check EXCEPT ![t] = chNow]
    /\ UNCHANGED <<shared_chunk_size, chNow, chStats, chRetries, lastAdapt,
                   reportFailed, chClass>>

\* a second passes
ChunkClockAdvances ==
    /\ chNow < MaxChunkTime
    /\ chNow' = chNow + 1
    /\ UNCHANGED <<shared_chunk_size, chPc, chStats, last_speed_check,
                   chRetries, lastAdapt, reportFailed, chClass>>

\* the class Downloader is loaded: no download_file call yet
ChIdle ==
    /\ shared_chunk_size = MIN_CHUNK_SIZE
    /\ chNow = 0
    /\ chPc = [t \in 1..NumTransfers |-> "idle"]
    /\ chStats = [t \in 1..NumTransfers |-> FALSE]
    /\ last_speed_check = [t \in 1..NumTransfers |-> 0]
    /\ chRetries = 0
    /\ lastAdapt = -1
    /\ reportFailed = [t \in 1..NumTransfers |-> FALSE]
    /\ chClass = [t \in 1..NumTransfers |-> "none"]

ChInit ==
    /\ shared_chunk_size = MIN_CHUNK_SIZE
    /\ chNow = 0
    /\ chPc = [t \in Transfers |-> "idle"]
    /\ chStats = [t \in Transfers |-> FALSE]
    /\ last_speed_check = [t \in Transfers |-> 0]
    /\ chRetries = 0
    /\ lastAdapt = NeverAdapted
    /\ reportFailed = [t \in Transfers |-> FALSE]
    /\ chClass = [t \in Transfers |-> "none"]

ChTypeOK ==
    /\ shared_chunk_size \in {MIN_CHUNK_SIZE, 262144, 524288, MAX_CHUNK_SIZE}
    /\ chNow \in 0..MaxChunkTime
    /\ \A t \in Transfers :
          /\ chPc[t] \in {"idle", "streaming", "backoff", "returned", "raised"}
          /\ chClass[t] \in {"none", "tracks_downloaded", "tracks_failed"}

ChNext ==
    \/ \E t \in Transfers, withStats \in BOOLEAN : TransferStarts(t, withStats)
    \/ \E t \in Transfers, speed \in Speeds, report \in ReportOutcomes :
          ChunkReceived(t, speed, report)
    \/ \E t \in Transfers : TransferCompletes(t)
    \/ \E t \in Transfers : AttemptBreaks(t)
    \/ \E t \in Transfers : RetryStarts(t)
    \/ ChunkClockAdvances

\* --------------------------------------------------------- specifications
InitBreaker == CbInit /\ ArIdle /\ OrIdle /\ LkIdle /\ DlIdle /\ RlIdle /\ CaIdle /\ ChIdle
SpecBreaker ==
    InitBreaker /\ [][CbNext /\ UNCHANGED <<arVars, orVars, lkVars, dlVars, rlVars, caVars, chVars>>]_vars

InitArchive == ArInit /\ CbIdle /\ OrIdle /\ LkIdle /\ DlIdle /\ RlIdle /\ CaIdle /\ ChIdle
SpecArchive ==
    InitArchive /\ [][ArNext /\ UNCHANGED <<cbVars, orVars, lkVars, dlVars, rlVars, caVars, chVars>>]_vars

InitOrch == OrInit /\ CbIdle /\ LkIdle /\ DlIdle /\ RlIdle /\ CaIdle /\ ChIdle
SpecOrch ==
    InitOrch /\ [][OrNext /\ UNCHANGED <<cbVars, arAux, lkVars, dlVars, rlVars, caVars, chVars>>]_vars

InitLocks == LkInit /\ CbIdle /\ ArIdle /\ OrIdle /\ DlIdle /\ RlIdle /\ CaIdle /\ ChIdle
SpecLocks ==
    InitLocks /\ [][LkNext /\ UNCHANGED <<cbVars, arVars, orVars, dlVars, rlVars, caVars, chVars>>]_vars

InitDownload == DlInit /\ CbIdle /\ ArIdle /\ OrIdle /\ LkIdle /\ RlIdle /\ CaIdle /\ ChIdle
DownloadStep == DlNext /\ UNCHANGED <<cbVars, arVars, orVars, lkVars, rlVars, caVars, chVars>>
SpecDownload == InitDownload /\ [][DownloadStep]_vars

\* an attempt ends (the body is finite, sock_connect and sock_read time out)
\* and asyncio.sleep returns
SpecDownloadFair == SpecDownload /\ WF_vars(DownloadStep)

InitLimiter == RlInit /\ CbIdle /\ ArIdle /\ OrIdle /\ LkIdle /\ DlIdle /\ CaIdle /\ ChIdle
SpecLimiter ==
    InitLimiter
    /\ [][RlNext /\ UNCHANGED <<cbVars, arVars, orVars, lkVars, dlVars, caVars, chVars>>]_vars

InitCache == CaInit /\ CbIdle /\ ArIdle /\ OrIdle /\ LkIdle /\ DlIdle /\ RlIdle /\ ChIdle
SpecCache ==
    InitCache
    /\ [][CaNext /\ UNCHANGED <<cbVars, arVars, orVars, lkVars, dlVars,
                              rlVars, chVars>>]_vars

InitChunk == ChInit /\ CbIdle /\ ArIdle /\ OrIdle /\ LkIdle /\ DlIdle /\ RlIdle /\ CaIdle
SpecChunk ==
    InitChunk
    /\ [][ChNext /\ UNCHANGED <<cbVars, arVars, orVars, lkVars, dlVars, rlVars,
                              caVars>>]_vars

Total(st) ==
    st["tracks_downloaded"] + st["tracks_skipped_archive"]
    + st["tracks_skipped_exists"] + st["tracks_skipped_quality"]
    + st["tracks_failed"]

\* M: the tracks behind the submitted URLs
RECURSIVE Submitted(_)
Submitted(urls) ==
    IF urls = {} THEN 0
    ELSE LET u == CHOOSE x \in urls : TRUE
         IN  Len(UrlTracks(u)) + Submitted(urls \ {u})

\* the items handed to per-track processing so far
Processed == {i \in AllInsts : item[i].pc # "idle"}

\* C1: when the run has finished, the five terminal counters sum to the
\* number M of submitted work items, also when every metadata and resolution
\* call failed.
C1_Conservation == RunFinished => Total(stats) = Submitted(source_urls)

\* the items whose outcome is known: finished, in the ledger insert that
\* follows a transfer, or interrupted during that insert
Classified ==
    {i \in Processed :
        \/ item[i].pc \in {"archive", "done"}
        \/ item[i].pc = "cancelled" /\ item[i].ins}

\* C2: every work item that is processed increments exactly one of the five
\* terminal counters, once: nothing until its outcome is known, one counter
\* from then on (through the ledger insert that follows a transfer and after
\* it), whatever resolution, cover fetch, transfer, tagging, integrity check
\* and ledger insert did; the counters of the run are the sums over the items
\* and every processed item is finished when the run is.
C2_ExactlyOneCounter ==
    /\ \A i \in Processed :
          /\ Total(cls[i]) = (IF i \in Classified THEN 1 ELSE 0)
          /\ \A c \in Classes : cls[i][c] \in {0, 1}
    /\ \A i \in AllInsts \ Processed : Total(cls[i]) = 0
    /\ Total(stats) = Cardinality(Classified)
    /\ RunFinished => \A i \in Processed : item[i].pc = "done"

C2_Witness ==
    /\ RunFinished
    /\ \E i \in Processed : item[i].ins /\ cls[i]["tracks_downloaded"] = 1
    /\ \E i \in Processed : item[i].xfer = "failed" /\ cls[i]["tracks_failed"] = 1

\* the claim of C3 for the items reached through URL u
LedgerSkips(u) ==
    (~config.dry_run /\ config.download_archive) =>
        \A i \in Insts(u) \cap Processed :
            TrackOf(i) \in ledger0 =>
                /\ ~item[i].res
                /\ item[i].xfer = "none"
                /\ item[i].pc = "done" => cls[i]["tracks_skipped_archive"] = 1

\* C3: in a non-dry run with the archive enabled, an item whose id is in the
\* archive is counted skipped-by-archive and neither fetch_track_url nor a
\* transfer is issued for it; stated here for the items reached through a
\* playlist.
C3_LedgerSkipPlaylist == LedgerSkips("P")

\* C4: an archive record is inserted for an item only after download_file
\* returned for it and the integrity check passed: add_tracks is called only
\* for items counted downloaded and nothing else, never in dry-run, and every
\* row that was not in the archive before the run belongs to such an item.
C4_InsertOnlyAfterValidTransfer ==
    /\ \A i \in AllInsts :
          (item[i].ins \/ item[i].pc = "archive") =>
              /\ ~config.dry_run
              /\ item[i].xfer = "done"
              /\ item[i].valid
              /\ cls[i] = [ZeroStats EXCEPT !["tracks_downloaded"] = 1]
    /\ \A r \in downloaded_tracks \ OldRows(ledger0) :
          \E i \in AllInsts : item[i].ins /\ r.track_id = Str(TrackOf(i))

C4_Witness ==
    \E i, j \in AllInsts :
        /\ item[i].ins
        /\ TrackOf(i) \notin ledger0
        /\ Str(TrackOf(i)) \in TableIds(downloaded_tracks)
        /\ item[j].pc = "done" /\ item[j].xfer = "done" /\ ~item[j].valid
        /\ Str(TrackOf(j)) \notin TableIds(downloaded_tracks)

\* C5: add_tracks is idempotent: every id that was inserted has exactly one
\* row, that row is the one of its first insert (same artist, album, title
\* and timestamp), and the table has as many rows as distinct ids were
\* inserted, whatever was inserted again in the same or a later batch.
C5_InsertIdempotent ==
    /\ \A k \in DOMAIN firstInserted :
            {r \in downloaded_tracks : r.track_id = k} = {firstInserted[k]}
    /\ Cardinality(downloaded_tracks) = Cardinality(DOMAIN firstInserted)

C5_Witness ==
    /\ reInserted
    /\ addReturn = TRUE
    /\ archiveTime = 1
    /\ \E r \in downloaded_tracks : r.downloaded_at = 0

CheckedIds == SeqSet(IdList(checkCall.len, checkCall.shape))

\* C6 as stated: the map returned by check_if_tracks_exist has exactly the
\* distinct input ids as keys, each with the value "a row with that id
\* exists", for every list length and with duplicates.
C6_MapIsExact ==
    checkCall # NoCall =>
        /\ DOMAIN checkCall.result = CheckedIds
        /\ \A x \in CheckedIds :
              checkCall.result[x] = (x \in TableIds(downloaded_tracks))

\* C6 amended: that holds whenever the query succeeds; when the store raises
\* sqlite3.Error the map has the distinct input ids as keys, all with False.
C6_MapIsExactUnlessStoreFails ==
    checkCall # NoCall =>
        /\ DOMAIN checkCall.result = CheckedIds
        /\ \A x \in CheckedIds :
              checkCall.result[x] =
                (checkCall.storeOk /\ x \in TableIds(downloaded_tracks))

C6_Witness ==
    /\ checkCall.len > 2 * CHECK_BATCH_SIZE
    /\ checkCall.shape = "wrap"
    /\ checkCall.storeOk
    /\ \E x \in CheckedIds : checkCall.result[x]
    /\ \E x \in CheckedIds : ~checkCall.result[x]

CbTypeOK ==
    /\ cbState \in {"closed", "open", "half_open"}
    /\ cbFailureCount \in Nat
    /\ cbSuccessCount \in Nat

\* an acquisition by c: the step in which c leaves "idle"
Acquires(c) == callPc[c] = "idle" /\ callPc'[c] # "idle"

TimeoutElapsed == now - cbLastFailureTime >= recovery_timeout

\* C7: starting in Closed, the breaker opens with the failure that makes
\* failure_threshold consecutive failed calls (no success between them), and
\* it is Closed only while fewer than failure_threshold consecutive failures
\* have occurred; the failure counter is that number of failures.
C7_OpensAtThreshold ==
    /\ [](cbState = "closed" =>
            consecFailures < failure_threshold /\ cbFailureCount = consecFailures)
    /\ [][cbState = "closed" =>
            /\ (consecFailures' = failure_threshold => cbState' = "open")
            /\ (cbState' # "closed" =>
                    cbState' = "open" /\ consecFailures' = failure_threshold)]_vars

C7_Witness ==
    /\ cbState = "open"
    /\ failure_threshold > 1
    /\ consecFailures = failure_threshold

\* C8: an acquisition made while Open and before recovery_timeout has elapsed
\* since the last failure is rejected, its request is never sent, and the
\* state, both counters and the last-failure time stay as they were.
C8_RejectedWhileOpen ==
    /\ [](\A c \in Callers : callPc[c] = "rejected" => ~sentReq[c])
    /\ [][\A c \in Callers :
            /\ (Acquires(c) /\ cbState = "open" /\ ~TimeoutElapsed) =>
                    /\ callPc'[c] = "rejected"
                    /\ UNCHANGED <<cbState, cbFailureCount, cbSuccessCount,
                                   cbLastFailureTime>>
            /\ (callPc[c] = "rejected" =>
                    /\ callPc'[c] \in {"rejected", "idle"}
                    /\ (callPc'[c] = "idle" =>
                          UNCHANGED <<cbState, cbFailureCount, cbSuccessCount,
                                      cbLastFailureTime, sentReq>>))]_vars

C8_Witness ==
    \E c \in Callers :
        /\ callPc[c] = "rejected"
        /\ cbState = "open"
        /\ ~TimeoutElapsed
        /\ cbFailureCount > 0

\* C9: an acquisition made while Open once recovery_timeout has elapsed since
\* the last recorded failure moves the state to HalfOpen with the success
\* counter at 0 and is admitted, before its request is sent.
C9_HalfOpenAfterTimeout ==
    [][\A c \in Callers :
        (Acquires(c) /\ cbState = "open" /\ TimeoutElapsed) =>
            /\ cbState' = "half_open"
            /\ cbSuccessCount' = 0
            /\ callPc'[c] = "limiter"
            /\ ~sentReq'[c]]_vars

C9_Witness ==
    \E c \in Callers :
        /\ cbState = "half_open"
        /\ callPc[c] = "limiter"
        /\ now - cbLastFailureTime = recovery_timeout
        /\ cbSuccessCount = 0

\* C10: in HalfOpen the state becomes Closed exactly with the success that
\* makes success_threshold successful calls since the state became HalfOpen;
\* with fewer it is still HalfOpen (a failure in between leaves to Open).
C10_ClosesAtSuccessThreshold ==
    /\ [](cbState = "half_open" =>
            hoSuccesses < success_threshold /\ cbSuccessCount = hoSuccesses)
    /\ [][cbState = "half_open" =>
            /\ (cbState' = "closed" <=> hoSuccesses' = success_threshold)
            /\ (hoSuccesses' < success_threshold /\ consecFailures' = 0 =>
                    cbState' = "half_open")]_vars

C10_Witness ==
    /\ cbState = "closed"
    /\ success_threshold > 1
    /\ hoSuccesses = success_threshold

\* a wrapped call completes with an exception in this step
FailureCompletes == consecFailures' = consecFailures + 1

\* C11: a wrapped call that completes with an exception while the breaker is
\* HalfOpen moves it to Open in that step, with the failure counter and the
\* success counter both 0 and the recovery window restarted at the time of
\* the failure; an acquisition made while Open before recovery_timeout has
\* elapsed is rejected and leaves the breaker Open.
C11_HalfOpenFailureReopens ==
    /\ [][(cbState = "half_open" /\ FailureCompletes) =>
            /\ cbState' = "open"
            /\ cbFailureCount' = 0
            /\ cbSuccessCount' = 0
            /\ cbLastFailureTime' = now'
            /\ now' - cbLastFailureTime' < recovery_timeout]_vars
    /\ [][\A c \in Callers :
            (Acquires(c) /\ cbState = "open" /\ ~TimeoutElapsed) =>
                callPc'[c] = "rejected" /\ cbState' = "open"]_vars

\* Open with the failure counter at 0 is entered only from HalfOpen
C11_Witness ==
    /\ cbState = "open"
    /\ cbFailureCount = 0
    /\ cbSuccessCount = 0
    /\ ~TimeoutElapsed
    /\ \E c \in Callers : callPc[c] = "rejected"

\* C12: when several callers process items of one album whose cover is not
\* yet present, the download of the cover inside the album's lock is
\* executed once for that album in the run; the other callers skip it
\* through the existence check outside or inside the lock.
C12_CoverFetchedOnce == \A a \in DOMAIN coverFetches : coverFetches[a] <= 1

\* the entries dropped from the registry in this step
Evicted == {asset_locks[k] : k \in 1..Len(asset_locks)}
           \ {asset_locks'[k] : k \in 1..Len(asset_locks')}

\* C13: for any capacity and any sequence of _get_asset_lock calls, the
\* registry never drops the entry of a lock that a caller currently holds, a
\* caller asking for an album while another caller holds that album's lock
\* is handed the same lock object, and the registry never has more entries
\* than its capacity.
C13_HeldLockNeverEvicted ==
    /\ [][\A e \in Evicted : HoldersOf(e.lock) = {}]_vars
    /\ [][\A c, d \in LockCallers :
            (lkPc[c] = "idle" /\ lkPc'[c] # "idle" /\ lkPc[d] = "holding"
             /\ lkGroup[d] = lkGroup'[c]) => lkLock'[c] = lkLock[d]]_vars
    /\ [](Len(asset_locks) <= max_locks)

\* C14: within one run a track id never has two transfers in flight at the
\* same time and is never transferred twice, also when the track is reached
\* from several submitted URLs.
C14_NoDuplicateTransfer ==
    \A i, j \in AllInsts :
        (i # j /\ TrackOf(i) = TrackOf(j)) =>
            item[i].xfer = "none" \/ item[j].xfer = "none"

\* the items inside "async with self.semaphore": from the URL fetch or the
\* start of process_track to the return of _get_and_process_track
InSemaphore ==
    {i \in AllInsts :
        item[i].pc \in {"fetchurl", "coverlock", "coverdl", "transfer", "archive"}}

\* C15: in a non-dry run the number of items inside the transfer stage is at
\* every moment at most max_workers: the items inside the semaphore block
\* are exactly the slots taken, and the free slots never go below 0.
C15_TransfersBounded ==
    ~config.dry_run =>
        /\ Cardinality(InSemaphore) <= config.max_workers
        /\ Cardinality(InSemaphore) = config.max_workers - semaphore
        /\ semaphore >= 0

C15_Witness ==
    /\ ~config.dry_run
    /\ config.max_workers >= 2
    /\ Cardinality({i \in AllInsts : item[i].pc = "transfer"}) = config.max_workers
    /\ \E i \in AllInsts : item[i].pc = "sem"

\* C16: a file is at an item's final path only after its transfer completed
\* and the integrity check passed: no final path ever holds a file that
\* fails the check.
C16_FinalPathOnlyValidated == \A p \in Paths : finalFiles[p] # "bad"

\* process_track ends in this step for item i, after download_file returned
\* and the integrity check said no
IntegrityRejected(i) ==
    /\ item[i].pc = "transfer"
    /\ item'[i].pc # "transfer"
    /\ item'[i].xfer = "done"
    /\ ~item'[i].valid

\* C17: when the integrity check of a transferred file is negative the item
\* is counted failed and nothing else, add_tracks is not called for it, and
\* when process_track has finished neither its temporary file nor a file at
\* its final path exists.
C17_IntegrityFailureCleansUp ==
    [][\A i \in AllInsts :
          IntegrityRejected(i) =>
              /\ cls'[i] = [ZeroStats EXCEPT !["tracks_failed"] = 1]
              /\ item'[i].pc = "done"
              /\ ~item'[i].ins
              /\ TempPath(i) \notin tempFiles'
              /\ finalFiles'[FinalPath(i)] = "absent"]_vars

\* C18: no two transfers that are in flight at the same time write to the
\* same temporary path.
C18_TempPathsDistinct ==
    \A i, j \in InFlight : i # j => TempPath(i) # TempPath(j)

\* process_track ends in this step for item i, after its transfer had
\* started, other than with a validated file
EndsFailed(i) ==
    /\ item[i].pc = "transfer"
    /\ item'[i].pc # "transfer"
    /\ ~(item'[i].xfer = "done" /\ item'[i].valid)

RetriedAttempts ==
    {k \in 1..Len(dlOutcomes) :
        dlOutcomes[k] \in TransientErrors /\ k < max_attempts}

\* download_file has returned or raised
DlTerminated == dlPc \in {"returned", "raised"}

\* the state part of C20: the attempts made, the waits between them, and
\* what a success and a final failure lead to
RetryContract ==
    /\ attempt <= max_attempts
    /\ Len(dlOutcomes) <= attempt
    /\ Len(dlSlept) = Cardinality(RetriedAttempts)
    /\ \A k \in RetriedAttempts :
          /\ dlSlept[k] = base_delay * Pow2(k - 1)
          /\ k = Len(dlOutcomes) =>
                \/ dlPc = "sleep" /\ attempt = k
                \/ dlPc = "attempt" /\ attempt = k + 1
                \/ dlRaised = "CancelledError"
    /\ \A k \in 1..Len(dlOutcomes) :
          dlOutcomes[k] = "ok" =>
             /\ k = Len(dlOutcomes)
             /\ attempt = k
             /\ dlPc = "returned"
             /\ dlRaised = "None"
    /\ (Len(dlOutcomes) = max_attempts /\ dlOutcomes[max_attempts] # "ok") =>
          /\ dlPc = "raised"
          /\ dlRaised = dlOutcomes[max_attempts]

\* C20: download_file makes at most max_attempts attempts; after a transient
\* failure of attempt k < max_attempts it waits base_delay * 2^(k-1) and tries
\* again; a success returns with no further attempt or wait; the failure of
\* the last attempt is raised with no wait after it; the call always ends.
C20_BoundedRetry == []RetryContract /\ <>DlTerminated

\* all max_attempts = 3 attempts failed transiently: two waits, then the raise
C20_Witness ==
    /\ max_attempts = 3
    /\ attempt = 3
    /\ Len(dlOutcomes) = 3
    /\ dlPc = "raised"
    /\ dlRaised \in TransientErrors
    /\ dlSlept = <<base_delay, 2 * base_delay>>

\* the body of on_429 runs in this step
SignalStep == rlApplied' = rlApplied + 1

\* C21: every on_429 call halves the rate exactly once with a floor of 1.0:
\* the step that runs its body leaves rate = max(1.0, rate / 2), the rate
\* drops in no other step, every call made has run once all waiters are
\* served, and the rate is never below 1.0.
C21_HalvedWithFloor ==
    /\ [][/\ SignalStep =>
               rlRate' = (IF rlRate \div 2 > 1000 THEN rlRate \div 2 ELSE 1000)
          /\ rlRate' < rlRate => SignalStep
          /\ rlApplied' \in {rlApplied, rlApplied + 1}]_vars
    /\ [](rlRate >= 1000)
    /\ [](rlQueue = <<>> => rlApplied = rlSignals)

\* two signals have been applied and the second one met the floor
C21_Witness == rlApplied = 2 /\ rlRate = 1000

\* acquire() of coroutine c returns in this step
AcquireReturns(c) == rlPc[c] # "request" /\ rlPc'[c] = "request"

\* acquire() of coroutine c starts to sleep in this step
AcquireSleeps(c) == rlPc[c] # "sleeping" /\ rlPc'[c] = "sleeping"

\* C22: pacing decisions are made one at a time; an acquire() sleeps
\* min_interval - (now - last_call_time) if that is positive and not at all
\* otherwise, and stamps last_call_time with the time of its return; two
\* consecutive returns are at least the later call's min_interval apart.
C22_PacedOneAtATime ==
    /\ [](Cardinality({c \in RlCallers : rlPc[c] = "sleeping"}) <= 1)
    /\ [][\A c \in RlCallers :
            /\ AcquireSleeps(c) =>
                  /\ rlWake'[c] - rlNow
                        = rlMinInterval' - (rlNow - last_call_time)
                  /\ rlWake'[c] > rlNow
            /\ (AcquireReturns(c) /\ rlPc[c] # "sleeping") =>
                  rlNow - last_call_time >= rlMinInterval'
            /\ AcquireReturns(c) =>
                  /\ last_call_time' = rlNow'
                  /\ rlPc[c] = "sleeping" => rlNow' >= rlWake[c]
                  /\ lastReturn # NeverReturned =>
                        rlNow' - lastReturn >= rlMinInterval']_vars

\* one coroutine has returned from acquire(), one sleeps in it, one queues
C22_Witness ==
    \E a, b, c \in RlCallers :
        /\ rlPc[a] = "request"
        /\ rlPc[b] = "sleeping"
        /\ rlPc[c] = "acquire_wait"
        /\ lastReturn # NeverReturned

\* coroutine c makes its pacing decision in this step
Decides(c) ==
    /\ rlPc[c] \in {"idle", "acquire_wait"}
    /\ rlPc'[c] \in {"sleeping", "request"}

\* C23: every acquire() that makes its pacing decision after a 429 was
\* signalled computes its wait from the halved rate: no decision is made
\* while an on_429 call has not taken effect yet.
C23_SignalVisibleAtOnce ==
    [][\A c \in RlCallers : Decides(c) => rlApplied = rlSignals]_vars

\* a get or a set of key k is made in this step
GetStep(k) ==
    caResult'.seq # caResult.seq /\ caResult'.op = "get" /\ caResult'.key = k

SetStep(k) ==
    caResult'.seq # caResult.seq /\ caResult'.op = "set" /\ caResult'.key = k

\* C24: a get(k) made at most max_age after the last successful set(k, v)
\* returns v; a get(k) made later than that returns absent and leaves no
\* entry file for k.
C24_TtlRoundTrip ==
    [][\A k \in CacheKeys :
          (GetStep(k) /\ lastSet[k].at >= 0) =>
             IF caNow - lastSet[k].at <= max_age_seconds
             THEN caResult'.out = lastSet[k].value
             ELSE caResult'.out = "None" /\ cache_files'[k] = NoFile]_vars

\* C25: a set whose serialized payload exceeds the cap of 500 KB returns
\* false and changes no entry file, so every key still reads as before.
C25_OversizedSetIsNoOp ==
    [][\A k \in CacheKeys :
          (SetStep(k)
           /\ EnvelopeSize + ValueSize(caResult'.arg) > 500 * 1024) =>
             /\ caResult'.out = "False"
             /\ cache_files' = cache_files
             /\ \A j \in CacheKeys : GetResult(j)' = GetResult(j)]_vars

\* an oversized set was rejected while the key holds an earlier, live entry
C25_Witness ==
    /\ caResult.op = "set"
    /\ caResult.arg = "big"
    /\ caResult.out = "False"
    /\ GetResult(caResult.key) \in {"small", "edge"}

\* the items of the submitted groups
GroupItems == UNION {Insts(u) : u \in source_urls}

Only(c) == [ZeroStats EXCEPT ![c] = 1]

\* C26: when the resolution of an item's transfer location raised, the run
\* ends with exactly that item counted failed and with every item of its
\* group counted in exactly one class.
C26_FailureSparesSiblings ==
    RunFinished =>
       \A i \in GroupItems :
          item[i].url = "raise" =>
             /\ cls[i] = Only("tracks_failed")
             /\ \A j \in Insts(UrlOf(i)) : Total(cls[j]) = 1

\* one resolution of a group raised and a sibling was downloaded
C26_Witness ==
    /\ RunFinished
    /\ \E i \in GroupItems, j \in GroupItems :
          /\ UrlOf(i) = UrlOf(j)
          /\ item[i].url = "raise"
          /\ cls[j] = Only("tracks_downloaded")

\* C27: an item whose location says the requested quality is unavailable is,
\* with no_fallback, never transferred, never counted failed and ends
\* counted skipped-by-policy; without no_fallback it is not counted as a
\* quality skip and goes on like any resolved item: its transfer is started
\* unless its file exists already.
C27_QualityPolicy ==
    \A i \in GroupItems :
       item[i].url = "restricted" =>
          IF config.no_fallback
          THEN /\ item[i].xfer = "none"
               /\ cls[i]["tracks_failed"] = 0
               /\ item[i].pc = "done" => cls[i] = Only("tracks_skipped_quality")
          ELSE /\ cls[i]["tracks_skipped_quality"] = 0
               /\ item[i].pc = "done" =>
                     \/ item[i].xfer # "none"
                     \/ cls[i] = Only("tracks_skipped_exists")

\* a restricted item was skipped under no_fallback
C27_Witness ==
    \E i \in GroupItems :
       /\ item[i].url = "restricted"
       /\ config.no_fallback
       /\ item[i].pc = "done"
       /\ cls[i] = Only("tracks_skipped_quality")

\* add_tracks of item i returns in this step
InsertStep(i) == item[i].pc = "archive" /\ item'[i].pc = "done"

\* C28: a group's ledger inserts are made at the end of the group: when an
\* item is inserted, every other item of its group has reached its
\* terminal state or waits for its own insert.
C28_InsertsBatchedAtGroupEnd ==
    [][\A i \in GroupItems :
          InsertStep(i) =>
             \A j \in Insts(UrlOf(i)) : item[j].pc \in {"done", "archive"}]_vars

\* C29: in dry-run mode no transfer and no cover fetch is started, the
\* ledger keeps its rows, and no temporary, cover or cache file is written.
C29_DryRunWritesNothing ==
    config.dry_run =>
       /\ \A i \in AllInsts : item[i].xfer = "none"
       /\ \A a \in DOMAIN coverFetches : coverFetches[a] = 0
       /\ downloaded_tracks = OldRows(ledger0)
       /\ tempFiles = {}
       /\ \A d \in DOMAIN coverFiles : coverFiles[d] = "absent"
       /\ cacheFiles = {}

\* C30: in dry-run mode with the ledger enabled, a processed item whose id
\* is in the ledger is counted skipped-by-ledger and not as downloaded.
C30_DryRunSkipsLedgerItems ==
    (config.dry_run /\ config.download_archive) =>
       \A i \in GroupItems :
          (item[i].pc = "done" /\ TrackOf(i) \in ledger0) =>
             cls[i] = Only("tracks_skipped_archive")

\* C34: right after every change of the breaker's state the failure counter
\* and the success counter are both 0.
C34_CountersResetOnTransition ==
    [][cbState' # cbState => cbFailureCount' = 0 /\ cbSuccessCount' = 0]_vars

\* the transitions of the state machine
AllowedEdges ==
    {<<"closed", "open">>, <<"open", "half_open">>,
     <<"half_open", "closed">>, <<"half_open", "open">>}

\* C35: the breaker starts Closed; its state changes only along the four
\* edges of the state machine, and each change is made in the step of the
\* counter update that causes it: the failure that reaches
\* failure_threshold, the acquisition that finds the timeout elapsed, the
\* success that reaches success_threshold, the failure of a recovery test.
C35_OnlyLegalTransitions ==
    /\ cbState = "closed"
    /\ [][cbState' # cbState =>
            /\ <<cbState, cbState'>> \in AllowedEdges
            /\ cbState = "closed" =>
                  /\ FailureCompletes
                  /\ cbFailureCount' = cbFailureCount + 1
                  /\ cbFailureCount' >= failure_threshold
            /\ cbState = "open" =>
                  /\ \E c \in Callers : Acquires(c)
                  /\ TimeoutElapsed
                  /\ cbSuccessCount' = 0
            /\ (cbState = "half_open" /\ cbState' = "closed") =>
                  /\ ~FailureCompletes
                  /\ cbSuccessCount + 1 >= success_threshold
                  /\ cbSuccessCount' = 0
                  /\ cbFailureCount' = 0
            /\ (cbState = "half_open" /\ cbState' = "open") =>
                  /\ FailureCompletes
                  /\ cbLastFailureTime' = now]_vars

\* the breaker has been round the whole cycle while a call admitted earlier
\* is still in flight
C35_Witness ==
    /\ cbState = "closed"
    /\ openedAt # NoTime
    /\ hoSuccesses = success_threshold
    /\ \E c \in Callers : callPc[c] = "sent"

\* c's request goes out in this step
Sends(c) == callPc[c] = "limiter" /\ callPc'[c] = "sent"

\* C37: whenever api_call sends a request the breaker is not Open, also for
\* a call that was admitted while Closed and waited in the rate limiter.
C37_NeverSendsWhileOpen ==
    [][\A c \in Callers : Sends(c) => cbState # "open"]_vars

\* C38: once the breaker has opened, an acquisition made recovery_timeout
\* or more after the failure that opened it is admitted and finds the
\* breaker HalfOpen, however the calls in flight at the opening complete.
C38_OpenPeriodNotProlonged ==
    [][\A c \in Callers :
          (Acquires(c) /\ cbState = "open" /\ now - openedAt >= recovery_timeout) =>
              callPc'[c] = "limiter" /\ cbState' = "half_open"]_vars

\* the recovery step of acquire() is taken in this step
RecoveryStep ==
    /\ \E c \in RlCallers : Decides(c)
    /\ rlNow - last_429_time > RecoveryWindow

\* C36: whatever acquire() and on_429() calls are made, the rate stays
\* within [1.0, max_rate] and min_interval is 1/rate; the recovery step
\* multiplies the rate by 1.005 and caps it at max_rate.
C36_RateWithinBounds ==
    /\ [](MinRate <= rlRate /\ rlRate <= MaxRate
          /\ rlMinInterval = Interval(rlRate))
    /\ [][RecoveryStep =>
             rlRate' = Min(MaxRate, (rlRate * 1005) \div 1000)]_vars

\* the recovery has run into the cap
C36_Witness ==
    /\ rlRate = MaxRate
    /\ rlAcquires > 0
    /\ rlApplied = 0

\* C33: a failure of the cache's backing store never reaches the caller as
\* an exception: get returns absent or a stored value, set returns true or
\* false.
C33_StoreFailuresContained ==
    /\ caResult.op = "get" => caResult.out \in CacheValues \cup {Missing}
    /\ caResult.op = "set" => caResult.out \in {"True", "False"}

\* the sweep removes the entry file of k in this step
SweepRemoves(k) == swFile = k /\ swFile' = NoKey /\ cache_files[k] # NoFile

\* C39: the sweep deletes expired entries only: the file it unlinks is, at
\* that moment, older than max_age, however set() and get() interleave
\* with the sweep thread.
C39_SweepDeletesExpiredOnly ==
    [][\A k \in CacheKeys :
          SweepRemoves(k) => Expired(caNow, cache_files[k].mtime)]_vars

\* item i leaves the cover stage for its transfer in this step without a
\* fetch of its own: an existence check found the cover file
SkipsCoverFetch(i) ==
    /\ ~config.no_cover
    /\ item[i].pc \in {"sem", "fetchurl", "coverlock"}
    /\ item'[i].pc = "transfer"
    /\ coverFiles[FinalDir(i)] # "absent"

\* C40: an item that skips the cover fetch because the file is there goes on
\* with a cover that a successful fetch has written completely.
C40_SkippedCoverIsComplete ==
    [][\A i \in AllInsts :
          SkipsCoverFetch(i) => coverFiles[FinalDir(i)] = "complete"]_vars

\* the shared chunk size is recomputed in this step
Recomputed == lastAdapt' # lastAdapt \/ shared_chunk_size' # shared_chunk_size

\* the sizes the chunk size is chosen from
Ladder == {128 * 1024, 256 * 1024, 512 * 1024, 1024 * 1024}

\* C31: the shared chunk size is recomputed at most once in any 2-second
\* window, whatever number of transfers and retries is running: a
\* recomputation comes 2 seconds or more after the one before; and the
\* value chosen is one of the ladder, non-decreasing in the measured speed.
C31_AdaptThrottled ==
    /\ [][(Recomputed /\ lastAdapt # NeverAdapted) => chNow - lastAdapt >= 2]_vars
    /\ [][Recomputed => shared_chunk_size' \in Ladder]_vars
    /\ [](\A a, b \in Speeds : a <= b => AdaptChunkSize(a) <= AdaptChunkSize(b))

\* C32: a reporting update that raises during a transfer does not fail the
\* transfer: download_file does not leave with the exception and the item
\* is not counted failed.
C32_ReportingFailureHarmless ==
    \A t \in Transfers :
       reportFailed[t] => chPc[t] # "raised" /\ chClass[t] # "tracks_failed"

====
